---- MODULE Spec2Model ----
(***************************************************************************)
(* go-fluent-sql: the query compilation engine.                            *)
(*                                                                         *)
(* The model covers the identifier/operator validator                      *)
(* (internal/validation), the MySQL grammar (dialect/mysql.go) and the     *)
(* fluent Builder that accumulates the query descriptor the grammar        *)
(* compiles.  SQL text, identifiers, operators and values are strings;     *)
(* a string is handled as the sequence of its characters (Len, SubSeq and  *)
(* \o work on strings), so quoting, upper-casing, trimming, splitting and  *)
(* sorting are computed character by character as the Go code does.        *)
(***************************************************************************)
EXTENDS Integers, Sequences, FiniteSets, TLC

(***************************************************************************)
(* Strings (Go package strings, as far as the grammar uses it)             *)
(***************************************************************************)

\* The i-th character of s, as a one-character string.
Char(s, i) == SubSeq(s, i, i)

LowerLetters == "abcdefghijklmnopqrstuvwxyz"
UpperLetters == "ABCDEFGHIJKLMNOPQRSTUVWXYZ"
DigitChars == "0123456789"

\* The MySQL identifier quote, the grave accent (byte 0x60).  A TLA+ string
\* literal cannot contain that character, so the model writes it as "~"
\* everywhere; the tilde itself (0x7E) is not part of the model's alphabet.
Backtick == "~"

\* Printable ASCII in code order, 0x20 .. 0x7D, with Backtick at 0x60.
AsciiTable ==
    " !\"#$%&'()*+,-./0123456789:;<=>?@ABCDEFGHIJKLMNOPQRSTUVWXYZ[\\]^_~abcdefghijklmnopqrstuvwxyz{|}"

CharsOf(s) == {Char(s, i) : i \in 1..Len(s)}

LowerSet == CharsOf(LowerLetters)
UpperSet == CharsOf(UpperLetters)
DigitSet == CharsOf(DigitChars)

IsLetter(c) == c \in LowerSet \/ c \in UpperSet

\* unicode.IsSpace restricted to ASCII: space, \t, \n, \v, \f, \r.
IsSpace(c) == c \in {" ", "\t", "\n", "\r", "\f"}

IndexIn(tbl, c) == CHOOSE i \in 1..Len(tbl) : Char(tbl, i) = c

\* The byte value of a character.
Code(c) ==
    IF c = "\t" THEN 9
    ELSE IF c = "\n" THEN 10
    ELSE IF c = "\f" THEN 12
    ELSE IF c = "\r" THEN 13
    ELSE 31 + IndexIn(AsciiTable, c)

UpperChar(c) == IF c \in LowerSet THEN Char(UpperLetters, IndexIn(LowerLetters, c)) ELSE c

RECURSIVE ToUpper(_)
ToUpper(s) == IF s = "" THEN "" ELSE UpperChar(Char(s, 1)) \o ToUpper(SubSeq(s, 2, Len(s)))

RECURSIVE TrimLeft(_)
TrimLeft(s) ==
    IF s # "" /\ IsSpace(Char(s, 1)) THEN TrimLeft(SubSeq(s, 2, Len(s))) ELSE s

RECURSIVE TrimRight(_)
TrimRight(s) ==
    IF s # "" /\ IsSpace(Char(s, Len(s))) THEN TrimRight(SubSeq(s, 1, Len(s) - 1)) ELSE s

TrimSpace(s) == TrimRight(TrimLeft(s))

\* strings.Contains
Contains(s, sub) ==
    \E i \in 1..(Len(s) - Len(sub) + 1) : SubSeq(s, i, i + Len(sub) - 1) = sub

\* strings.ContainsAny
ContainsAny(s, chars) == \E i \in 1..Len(s) : Char(s, i) \in CharsOf(chars)

\* strings.Count for a one-character needle
Count(s, c) == Cardinality({i \in 1..Len(s) : Char(s, i) = c})

\* strings.Join
RECURSIVE Join(_, _)
Join(parts, sep) ==
    IF Len(parts) = 0 THEN ""
    ELSE IF Len(parts) = 1 THEN parts[1]
    ELSE parts[1] \o sep \o Join(Tail(parts), sep)

\* strings.Split for a one-character separator: the texts between
\* consecutive separators, the ends of s counting as separators.
Split(s, sep) ==
    LET seps == {i \in 1..Len(s) : Char(s, i) = sep}
        at(k) == IF k = 0 THEN 0
                 ELSE IF k = Cardinality(seps) + 1 THEN Len(s) + 1
                 ELSE CHOOSE i \in seps : Cardinality({j \in seps : j < i}) = k - 1
    IN  [k \in 1..(Cardinality(seps) + 1) |-> SubSeq(s, at(k - 1) + 1, at(k) - 1)]

\* Byte-wise lexicographic order of Go strings (a < b).
RECURSIVE StrLess(_, _)
StrLess(a, b) ==
    IF b = "" THEN FALSE
    ELSE IF a = "" THEN TRUE
    ELSE IF Char(a, 1) = Char(b, 1) THEN StrLess(SubSeq(a, 2, Len(a)), SubSeq(b, 2, Len(b)))
    ELSE Code(Char(a, 1)) < Code(Char(b, 1))

\* sort.Strings: the keys in ascending order (insertion into a sorted list).
RECURSIVE InsertSorted(_, _)
InsertSorted(sorted, k) ==
    IF sorted = <<>> THEN <<k>>
    ELSE IF StrLess(k, sorted[1]) THEN <<k>> \o sorted
    ELSE <<sorted[1]>> \o InsertSorted(Tail(sorted), k)

RECURSIVE SortStrings(_)
SortStrings(keys) ==
    IF keys = <<>> THEN <<>>
    ELSE InsertSorted(SortStrings(SubSeq(keys, 1, Len(keys) - 1)), keys[Len(keys)])

\* fmt.Sprintf("%d", n) for n >= 0
RECURSIVE Itoa(_)
Itoa(n) ==
    IF n < 10 THEN Char(DigitChars, n + 1)
    ELSE Itoa(n \div 10) \o Char(DigitChars, (n % 10) + 1)

(***************************************************************************)
(* Errors                                                                  *)
(***************************************************************************)

NoError == [kind |-> "nil", input |-> ""]
DialectError(name) == [kind |-> name, input |-> ""]
ErrNoTable == DialectError("ErrNoTable")
ErrNoColumns == DialectError("ErrNoColumns")
ErrEmptyBatch == DialectError("ErrEmptyBatch")
ErrInconsistentBatch == DialectError("ErrInconsistentBatch")
ErrEmptyWhereIn == DialectError("ErrEmptyWhereIn")
ErrInvalidBetween == DialectError("ErrInvalidBetween")
IdentifierError(id) == [kind |-> "IdentifierError", input |-> id]
OperatorError(op) == [kind |-> "OperatorError", input |-> op]
UnknownWhereType(t) == [kind |-> "UnknownWhereType", input |-> t]

(***************************************************************************)
(* internal/validation                                                     *)
(***************************************************************************)

MaxIdentifierLength == 128

\* A local variable: `v := value` followed by the statements of Body.
With(value, Body(_)) == Body(value)

IsIdentStart(c) == IsLetter(c) \/ c = "_"
IsIdentChar(c) == IsLetter(c) \/ c \in DigitSet \/ c = "_"

\* ^[a-zA-Z_][a-zA-Z0-9_]*$
IsWord(s) ==
    /\ s # ""
    /\ IsIdentStart(Char(s, 1))
    /\ \A i \in 2..Len(s) : IsIdentChar(Char(s, i))

\* identifierRegex: ^[a-zA-Z_][a-zA-Z0-9_]*(\.[a-zA-Z_][a-zA-Z0-9_]*)?$
identifierRegex(s) ==
    LET parts == Split(s, ".")
    IN  /\ Len(parts) \in {1, 2}
        /\ \A i \in 1..Len(parts) : IsWord(parts[i])

\* ValidateIdentifier without the length limit.
ValidateIdentifierAnyLength(id) ==
    IF id = "" THEN IdentifierError(id)
    ELSE IF ~identifierRegex(id) THEN IdentifierError(id)
    ELSE NoError

\* ValidateIdentifier: NoError when id is accepted.
ValidateIdentifier(id) ==
    IF id = "" THEN IdentifierError(id)
    ELSE IF Len(id) > MaxIdentifierLength THEN IdentifierError(id)
    ELSE IF ~identifierRegex(id) THEN IdentifierError(id)
    ELSE NoError

\* Length of the longest prefix of s made of identifier characters.
RECURSIVE WordPrefixLen(_, _)
WordPrefixLen(s, i) ==
    IF i <= Len(s) /\ IsIdentChar(Char(s, i)) THEN WordPrefixLen(s, i + 1) ELSE i - 1

\* aliasRegex without the (?i) flag.
aliasRegexCaseSensitive(s) ==
    With(WordPrefixLen(s, 1), LAMBDA n :
    With(TrimLeft(SubSeq(s, n + 1, Len(s))), LAMBDA rest :
    With(TrimLeft(SubSeq(rest, 3, Len(rest))), LAMBDA afterAs :
        IF n = 0 \/ n = Len(s) \/ ~IsIdentStart(Char(s, 1)) \/ ~IsSpace(Char(s, n + 1))
            THEN <<>>
        ELSE IF /\ Len(rest) > 3
                /\ SubSeq(rest, 1, 2) = "as"
                /\ IsSpace(Char(rest, 3))
                /\ IsWord(afterAs)
             THEN <<SubSeq(s, 1, n), afterAs>>
        ELSE IF IsWord(rest) THEN <<SubSeq(s, 1, n), rest>>
        ELSE <<>>)))

\* aliasRegex: (?i)^([a-zA-Z_][a-zA-Z0-9_]*)\s+(?:as\s+)?([a-zA-Z_][a-zA-Z0-9_]*)$
\* FindStringSubmatch: <<name, alias>> when the text matches, <<>> otherwise.
aliasRegex(s) ==
    With(WordPrefixLen(s, 1), LAMBDA n :
    With(TrimLeft(SubSeq(s, n + 1, Len(s))), LAMBDA rest :
    With(TrimLeft(SubSeq(rest, 3, Len(rest))), LAMBDA afterAs :
        IF n = 0 \/ n = Len(s) \/ ~IsIdentStart(Char(s, 1)) \/ ~IsSpace(Char(s, n + 1))
            THEN <<>>
        ELSE IF /\ Len(rest) > 3
                /\ ToUpper(SubSeq(rest, 1, 2)) = "AS"
                /\ IsSpace(Char(rest, 3))
                /\ IsWord(afterAs)
             THEN <<SubSeq(s, 1, n), afterAs>>
        ELSE IF IsWord(rest) THEN <<SubSeq(s, 1, n), rest>>
        ELSE <<>>)))

\* ValidateTableWithAlias: [name, alias, err]
ValidateTableWithAlias(table) ==
    LET fail(e) == [name |-> "", alias |-> "", err |-> e]
    IN  IF table = "" THEN fail(IdentifierError(table))
        ELSE With(aliasRegex(table), LAMBDA matches :
            IF matches # <<>> THEN
                With(ValidateIdentifier(matches[1]), LAMBDA nameErr :
                    IF nameErr # NoError THEN fail(nameErr)
                    ELSE IF ValidateIdentifier(matches[2]) # NoError
                        THEN fail(IdentifierError(matches[2]))
                    ELSE [name |-> matches[1], alias |-> matches[2], err |-> NoError])
            ELSE With(ValidateIdentifier(table), LAMBDA err :
                    IF err # NoError THEN fail(err)
                    ELSE [name |-> table, alias |-> "", err |-> NoError]))

allowedOperators ==
    {"=", "!=", "<>", "<", ">", "<=", ">=",
     "LIKE", "NOT LIKE", "IS", "IS NOT",
     "IN", "NOT IN", "BETWEEN", "NOT BETWEEN", "<=>"}

\* ValidateOperator: NoError when op is accepted.
\* ValidateOperator that accepts any text beginning with an allowed operator.
ValidateOperatorPrefix(op) ==
    LET normalized == ToUpper(TrimSpace(op))
    IN  IF \E a \in allowedOperators :
                Len(a) <= Len(normalized) /\ SubSeq(normalized, 1, Len(a)) = a
        THEN NoError ELSE OperatorError(op)

ValidateOperator(op) ==
    LET normalized == ToUpper(TrimSpace(op))
    IN  IF normalized \notin allowedOperators THEN OperatorError(op) ELSE NoError

(***************************************************************************)
(* dialect: clause model                                                   *)
(***************************************************************************)

\* The zero value of an unset `any` field.
NilValue == "<nil>"

\* dialect.WhereClause with every field the struct has.
WhereClause(type, boolean, column, operator, value, values, nested, raw, bindings) ==
    [Type |-> type, Boolean |-> boolean, Column |-> column, Operator |-> operator,
     Value |-> value, Values |-> values, Nested |-> nested, Raw |-> raw,
     Bindings |-> bindings]

\* dialect.OrderClause
OrderClause(column, direction, raw) ==
    [Column |-> column, Direction |-> direction, Raw |-> raw]

\* dialect.JoinClause
JoinClause(type, table, first, operator, second) ==
    [Type |-> type, Table |-> table, Alias |-> "", First |-> first,
     Operator |-> operator, Second |-> second]

JoinInner == "INNER"
JoinLeft == "LEFT"
JoinRight == "RIGHT"
JoinCross == "CROSS"
OrderAsc == "ASC"
OrderDesc == "DESC"

(***************************************************************************)
(* dialect.MySQLGrammar                                                    *)
(***************************************************************************)

\* A compile result (sql, args, err).  A nil and an empty argument slice are
\* both the empty sequence.
Ok(sql, args) == [sql |-> sql, args |-> args, err |-> NoError]
Fail(e) == [sql |-> "", args |-> <<>>, err |-> e]

\* Wrap quotes every dot-separated part of a valid identifier.
RECURSIVE QuoteParts(_)
QuoteParts(parts) ==
    IF parts = <<>> THEN <<>>
    ELSE <<Backtick \o parts[1] \o Backtick>> \o QuoteParts(Tail(parts))

\* Wrap that quotes without validating.
WrapUnchecked(identifier) ==
    IF identifier = "*" THEN [s |-> "*", err |-> NoError]
    ELSE IF Contains(identifier, ".")
        THEN [s |-> Join(QuoteParts(Split(identifier, ".")), "."), err |-> NoError]
    ELSE [s |-> Backtick \o identifier \o Backtick, err |-> NoError]

Wrap(identifier) ==
    IF identifier = "*" THEN [s |-> "*", err |-> NoError]
    ELSE With(ValidateIdentifier(identifier), LAMBDA err :
        IF err # NoError THEN [s |-> "", err |-> err]
        ELSE IF Contains(identifier, ".")
            THEN [s |-> Join(QuoteParts(Split(identifier, ".")), "."), err |-> NoError]
        ELSE [s |-> Backtick \o identifier \o Backtick, err |-> NoError])

WrapTable(table) ==
    With(ValidateTableWithAlias(table), LAMBDA v :
        IF v.err # NoError THEN [s |-> "", err |-> v.err]
        ELSE IF v.alias # ""
            THEN [s |-> Backtick \o v.name \o Backtick \o " AS "
                        \o Backtick \o v.alias \o Backtick,
                  err |-> NoError]
        ELSE [s |-> Backtick \o v.name \o Backtick, err |-> NoError])

Placeholder(index) == "?"

\* The loops `for i, col := range cols { wrapped, err := g.Wrap(col) ... }`:
\* the wrapped names, or the error of the first name that fails.
RECURSIVE WrapEach(_)
WrapEach(ids) ==
    IF ids = <<>> THEN [out |-> <<>>, err |-> NoError]
    ELSE With(Wrap(ids[1]), LAMBDA w :
            IF w.err # NoError THEN [out |-> <<>>, err |-> w.err]
            ELSE With(WrapEach(Tail(ids)), LAMBDA r :
                    IF r.err # NoError THEN r
                    ELSE [out |-> <<w.s>> \o r.out, err |-> NoError]))

\* One placeholder per element, "?, ?, ?".
\* Placeholders that writes one "?" too many.
PlaceholdersExtra(n) == Join([i \in 1..(n + 1) |-> Placeholder(i - 1)], ", ")

Placeholders(n) == Join([i \in 1..n |-> Placeholder(i - 1)], ", ")

\* compileWhereBasic that writes the value into the text as a quoted literal.
compileWhereBasicLiteral(where) ==
    With(Wrap(where.Column), LAMBDA column :
        IF column.err # NoError THEN Fail(column.err)
        ELSE With(ValidateOperator(where.Operator), LAMBDA err :
                IF err # NoError THEN Fail(err)
                ELSE Ok(column.s \o " " \o ToUpper(where.Operator) \o " '" \o where.Value \o "'",
                        <<>>)))

\* compileWhereBasic that emits the operator as given.
compileWhereBasicAsGiven(where) ==
    With(Wrap(where.Column), LAMBDA column :
        IF column.err # NoError THEN Fail(column.err)
        ELSE With(ValidateOperator(where.Operator), LAMBDA err :
                IF err # NoError THEN Fail(err)
                ELSE Ok(column.s \o " " \o where.Operator \o " ?", <<where.Value>>)))

compileWhereBasic(where) ==
    With(Wrap(where.Column), LAMBDA column :
        IF column.err # NoError THEN Fail(column.err)
        ELSE With(ValidateOperator(where.Operator), LAMBDA err :
                IF err # NoError THEN Fail(err)
                ELSE Ok(column.s \o " " \o ToUpper(where.Operator) \o " ?", <<where.Value>>)))

compileWhereIn(where, not) ==
    IF Len(where.Values) = 0 THEN Fail(ErrEmptyWhereIn)
    ELSE With(Wrap(where.Column), LAMBDA column :
            IF column.err # NoError THEN Fail(column.err)
            ELSE Ok(column.s \o " " \o (IF not THEN "NOT IN" ELSE "IN") \o " ("
                        \o Placeholders(Len(where.Values)) \o ")",
                    where.Values))

compileWhereBetween(where, not) ==
    IF Len(where.Values) # 2 THEN Fail(ErrInvalidBetween)
    ELSE With(Wrap(where.Column), LAMBDA column :
            IF column.err # NoError THEN Fail(column.err)
            ELSE Ok(column.s \o " " \o (IF not THEN "NOT BETWEEN" ELSE "BETWEEN")
                        \o " ? AND ?",
                    where.Values))

compileWhereNull(where, not) ==
    With(Wrap(where.Column), LAMBDA column :
        IF column.err # NoError THEN Fail(column.err)
        ELSE Ok(column.s \o " " \o (IF not THEN "IS NOT NULL" ELSE "IS NULL"), <<>>))

compileWhereDate(where, fn) ==
    With(Wrap(where.Column), LAMBDA column :
        IF column.err # NoError THEN Fail(column.err)
        ELSE Ok(fn \o "(" \o column.s \o ") = ?", <<where.Value>>))

RECURSIVE compileWheresLoop(_, _, _, _)
RECURSIVE compileWhere(_)

\* The loop of compileWheres from index i on, with the text and arguments
\* assembled so far.
compileWheresLoop(wheres, i, sql, args) ==
    IF i > Len(wheres) THEN Ok(sql, args)
    ELSE With(compileWhere(wheres[i]), LAMBDA clause :
            IF clause.err # NoError THEN Fail(clause.err)
            ELSE compileWheresLoop(wheres, i + 1,
                    sql \o (IF i > 1 THEN " " \o wheres[i].Boolean \o " " ELSE "")
                        \o clause.sql,
                    args \o clause.args))

compileWheres(wheres) ==
    IF Len(wheres) = 0 THEN Ok("", <<>>)
    ELSE compileWheresLoop(wheres, 1, "", <<>>)

\* compileWhereNested that leaves the parentheses out.
compileWhereNestedBare(where) ==
    IF Len(where.Nested) = 0 THEN Ok("", <<>>)
    ELSE With(compileWheres(where.Nested), LAMBDA nested :
            IF nested.err # NoError THEN Fail(nested.err)
            ELSE Ok(nested.sql, nested.args))

compileWhereNested(where) ==
    IF Len(where.Nested) = 0 THEN Ok("", <<>>)
    ELSE With(compileWheres(where.Nested), LAMBDA nested :
            IF nested.err # NoError THEN Fail(nested.err)
            ELSE Ok("(" \o nested.sql \o ")", nested.args))

compileWhere(where) ==
    CASE where.Type = "Basic" -> compileWhereBasic(where)
      [] where.Type = "In" -> compileWhereIn(where, FALSE)
      [] where.Type = "NotIn" -> compileWhereIn(where, TRUE)
      [] where.Type = "Between" -> compileWhereBetween(where, FALSE)
      [] where.Type = "NotBetween" -> compileWhereBetween(where, TRUE)
      [] where.Type = "Null" -> compileWhereNull(where, FALSE)
      [] where.Type = "NotNull" -> compileWhereNull(where, TRUE)
      [] where.Type = "Raw" -> Ok(where.Raw, where.Bindings)
      [] where.Type = "Nested" -> compileWhereNested(where)
      [] where.Type = "Date" -> compileWhereDate(where, "DATE")
      [] where.Type = "Year" -> compileWhereDate(where, "YEAR")
      [] where.Type = "Month" -> compileWhereDate(where, "MONTH")
      [] where.Type = "Day" -> compileWhereDate(where, "DAY")
      [] OTHER -> Fail(UnknownWhereType(where.Type))

compileJoin(join) ==
    With(WrapTable(join.Table), LAMBDA table :
        IF table.err # NoError THEN [s |-> "", err |-> table.err]
        ELSE IF join.Type = JoinCross THEN [s |-> "CROSS JOIN " \o table.s, err |-> NoError]
        ELSE With(Wrap(join.First), LAMBDA first :
            IF first.err # NoError THEN [s |-> "", err |-> first.err]
            ELSE With(Wrap(join.Second), LAMBDA second :
                IF second.err # NoError THEN [s |-> "", err |-> second.err]
                ELSE With(ValidateOperator(join.Operator), LAMBDA err :
                    IF err # NoError THEN [s |-> "", err |-> err]
                    ELSE [s |-> join.Type \o " JOIN " \o table.s \o " ON " \o first.s
                                \o " " \o join.Operator \o " " \o second.s,
                          err |-> NoError]))))

\* The column loop of CompileSelect: an entry with a space or a parenthesis
\* is a raw expression and is not wrapped.
RECURSIVE selectColumns(_)
selectColumns(columns) ==
    IF columns = <<>> THEN [out |-> <<>>, err |-> NoError]
    ELSE With(IF ContainsAny(columns[1], " ()")
                THEN [s |-> columns[1], err |-> NoError]
                ELSE Wrap(columns[1]),
              LAMBDA w :
                IF w.err # NoError THEN [out |-> <<>>, err |-> w.err]
                ELSE With(selectColumns(Tail(columns)), LAMBDA r :
                        IF r.err # NoError THEN r
                        ELSE [out |-> <<w.s>> \o r.out, err |-> NoError]))

\* The JOIN loop of CompileSelect: " " and the join text, per join.
RECURSIVE compileJoins(_)
compileJoins(joins) ==
    IF joins = <<>> THEN [s |-> "", err |-> NoError]
    ELSE With(compileJoin(joins[1]), LAMBDA j :
            IF j.err # NoError THEN [s |-> "", err |-> j.err]
            ELSE With(compileJoins(Tail(joins)), LAMBDA r :
                    IF r.err # NoError THEN r
                    ELSE [s |-> " " \o j.s \o r.s, err |-> NoError]))

\* The ORDER BY loop of CompileSelect.
RECURSIVE compileOrders(_)
compileOrders(orders) ==
    IF orders = <<>> THEN [out |-> <<>>, err |-> NoError]
    ELSE With(IF orders[1].Raw # ""
                THEN [s |-> orders[1].Raw, err |-> NoError]
                ELSE With(Wrap(orders[1].Column), LAMBDA col :
                        [s |-> col.s \o " " \o orders[1].Direction, err |-> col.err]),
              LAMBDA w :
                IF w.err # NoError THEN [out |-> <<>>, err |-> w.err]
                ELSE With(compileOrders(Tail(orders)), LAMBDA r :
                        IF r.err # NoError THEN r
                        ELSE [out |-> <<w.s>> \o r.out, err |-> NoError]))

\* fmt.Sprintf("%d", n)
Sprintd(n) == IF n < 0 THEN "-" \o Itoa(0 - n) ELSE Itoa(n)

\* The optional WHERE of a statement.
whereText(wh, wheres) == IF Len(wheres) > 0 THEN " WHERE " \o wh.sql ELSE ""

\* selectText is the text and the arguments CompileSelect returns once every
\* part has compiled.
\* selectText that writes HAVING before GROUP BY and binds its arguments first.
selectTextHavingFirst(b, cols, table, joins, wh, grp, hv, ord) ==
    Ok("SELECT "
        \o (IF b.distinct THEN "DISTINCT " ELSE "")
        \o (IF Len(b.columns) = 0 THEN "*" ELSE Join(cols.out, ", "))
        \o " FROM " \o table.s
        \o joins.s
        \o whereText(wh, b.wheres)
        \o (IF Len(b.having) > 0 THEN " HAVING " \o hv.sql ELSE "")
        \o (IF Len(b.groupBy) > 0 THEN " GROUP BY " \o Join(grp.out, ", ") ELSE "")
        \o (IF Len(b.orders) > 0 THEN " ORDER BY " \o Join(ord.out, ", ") ELSE "")
        \o (IF b.limit # <<>> THEN " LIMIT " \o Sprintd(b.limit[1]) ELSE "")
        \o (IF b.offset # <<>> THEN " OFFSET " \o Sprintd(b.offset[1]) ELSE ""),
       hv.args \o wh.args)

selectText(b, cols, table, joins, wh, grp, hv, ord) ==
    Ok("SELECT "
        \o (IF b.distinct THEN "DISTINCT " ELSE "")
        \o (IF Len(b.columns) = 0 THEN "*" ELSE Join(cols.out, ", "))
        \o " FROM " \o table.s
        \o joins.s
        \o whereText(wh, b.wheres)
        \o (IF Len(b.groupBy) > 0 THEN " GROUP BY " \o Join(grp.out, ", ") ELSE "")
        \o (IF Len(b.having) > 0 THEN " HAVING " \o hv.sql ELSE "")
        \o (IF Len(b.orders) > 0 THEN " ORDER BY " \o Join(ord.out, ", ") ELSE "")
        \o (IF b.limit # <<>> THEN " LIMIT " \o Sprintd(b.limit[1]) ELSE "")
        \o (IF b.offset # <<>> THEN " OFFSET " \o Sprintd(b.offset[1]) ELSE ""),
       wh.args \o hv.args)

CompileSelect(b) ==
    IF b.table = "" THEN Fail(ErrNoTable)
    ELSE With(selectColumns(b.columns), LAMBDA cols :
        IF cols.err # NoError THEN Fail(cols.err)
        ELSE With(WrapTable(b.table), LAMBDA table :
        IF table.err # NoError THEN Fail(table.err)
        ELSE With(compileJoins(b.joins), LAMBDA joins :
        IF joins.err # NoError THEN Fail(joins.err)
        ELSE With(compileWheres(b.wheres), LAMBDA wh :
        IF wh.err # NoError THEN Fail(wh.err)
        ELSE With(WrapEach(b.groupBy), LAMBDA grp :
        IF grp.err # NoError THEN Fail(grp.err)
        ELSE With(compileWheres(b.having), LAMBDA hv :
        IF hv.err # NoError THEN Fail(hv.err)
        ELSE With(compileOrders(b.orders), LAMBDA ord :
        IF ord.err # NoError THEN Fail(ord.err)
        ELSE selectText(b, cols, table, joins, wh, grp, hv, ord))))))))

\* data[key] for the keys in order.
ValuesOf(data, keys) == [i \in 1..Len(keys) |-> data[keys[i]]]

\* A Go map is a function from its keys; `iter` is the order in which one
\* `for k := range data` happens to enumerate them.
\* sortedKeys that keeps the enumeration order of the map.
sortedKeysAsEnumerated(iter) == iter

\* keys := the keys as enumerated; sort.Strings(keys)
sortedKeys(iter) == SortStrings(iter)

CompileInsert(b, data, iter) ==
    IF b.table = "" THEN Fail(ErrNoTable)
    ELSE IF Len(iter) = 0 THEN Fail(ErrNoColumns)
    ELSE With(sortedKeys(iter), LAMBDA keys :
        With(WrapTable(b.table), LAMBDA table :
        IF table.err # NoError THEN Fail(table.err)
        ELSE With(WrapEach(keys), LAMBDA cols :
        IF cols.err # NoError THEN Fail(cols.err)
        ELSE Ok("INSERT INTO " \o table.s \o " (" \o Join(cols.out, ", ") \o ")"
                \o " VALUES (" \o Placeholders(Len(keys)) \o ")",
                ValuesOf(data, keys)))))

\* The row loop of CompileInsertBatch from row i on.
RECURSIVE batchRows(_, _, _)
batchRows(rows, keys, i) ==
    IF i > Len(rows) THEN [out |-> <<>>, args |-> <<>>, err |-> NoError]
    ELSE IF Cardinality(DOMAIN rows[i]) # Len(keys)
        THEN [out |-> <<>>, args |-> <<>>, err |-> ErrInconsistentBatch]
    ELSE IF \E j \in 1..Len(keys) : keys[j] \notin DOMAIN rows[i]
        THEN [out |-> <<>>, args |-> <<>>, err |-> ErrInconsistentBatch]
    ELSE With(batchRows(rows, keys, i + 1), LAMBDA r :
            IF r.err # NoError THEN r
            ELSE [out |-> <<"(" \o Placeholders(Len(keys)) \o ")">> \o r.out,
                  args |-> ValuesOf(rows[i], keys) \o r.args,
                  err |-> NoError])

\* CompileInsertBatch that compares only the rows' key counts and reads a
\* missing key as nil.
CompileInsertBatchByCount(b, rows, iter) ==
    IF b.table = "" THEN Fail(ErrNoTable)
    ELSE IF Len(rows) = 0 THEN Fail(ErrEmptyBatch)
    ELSE IF Len(iter) = 0 THEN Fail(ErrNoColumns)
    ELSE With(sortedKeys(iter), LAMBDA keys :
        With(WrapTable(b.table), LAMBDA table :
        IF table.err # NoError THEN Fail(table.err)
        ELSE With(WrapEach(keys), LAMBDA cols :
        IF cols.err # NoError THEN Fail(cols.err)
        ELSE IF \E i \in 1..Len(rows) : Cardinality(DOMAIN rows[i]) # Len(keys)
            THEN Fail(ErrInconsistentBatch)
        ELSE Ok("INSERT INTO " \o table.s \o " (" \o Join(cols.out, ", ") \o ") VALUES "
                \o Join([i \in 1..Len(rows) |-> "(" \o Placeholders(Len(keys)) \o ")"],
                        ", "),
                [k \in 1..(Len(rows) * Len(keys)) |->
                    LET row == rows[((k - 1) \div Len(keys)) + 1]
                        key == keys[((k - 1) % Len(keys)) + 1]
                    IN  IF key \in DOMAIN row THEN row[key] ELSE NilValue]))))

CompileInsertBatch(b, rows, iter) ==
    IF b.table = "" THEN Fail(ErrNoTable)
    ELSE IF Len(rows) = 0 THEN Fail(ErrEmptyBatch)
    ELSE IF Len(iter) = 0 THEN Fail(ErrNoColumns)
    ELSE With(sortedKeys(iter), LAMBDA keys :
        With(WrapTable(b.table), LAMBDA table :
        IF table.err # NoError THEN Fail(table.err)
        ELSE With(WrapEach(keys), LAMBDA cols :
        IF cols.err # NoError THEN Fail(cols.err)
        ELSE With(batchRows(rows, keys, 1), LAMBDA vals :
        IF vals.err # NoError THEN Fail(vals.err)
        ELSE Ok("INSERT INTO " \o table.s \o " (" \o Join(cols.out, ", ") \o ") VALUES "
                \o Join(vals.out, ", "),
                vals.args)))))

CompileUpdate(b, data, iter) ==
    IF b.table = "" THEN Fail(ErrNoTable)
    ELSE IF Len(iter) = 0 THEN Fail(ErrNoColumns)
    ELSE With(sortedKeys(iter), LAMBDA keys :
        With(WrapTable(b.table), LAMBDA table :
        IF table.err # NoError THEN Fail(table.err)
        ELSE With(WrapEach(keys), LAMBDA cols :
        IF cols.err # NoError THEN Fail(cols.err)
        ELSE With(compileWheres(b.wheres), LAMBDA wh :
        IF wh.err # NoError THEN Fail(wh.err)
        ELSE Ok("UPDATE " \o table.s \o " SET "
                \o Join([i \in 1..Len(keys) |-> cols.out[i] \o " = " \o Placeholder(i - 1)],
                        ", ")
                \o whereText(wh, b.wheres),
                ValuesOf(data, keys) \o wh.args)))))

\* CompileDelete that returns the text assembled before a failing WHERE.
CompileDeletePartial(b) ==
    IF b.table = "" THEN Fail(ErrNoTable)
    ELSE With(WrapTable(b.table), LAMBDA table :
        IF table.err # NoError THEN Fail(table.err)
        ELSE With(compileWheres(b.wheres), LAMBDA wh :
        IF wh.err # NoError
            THEN [sql |-> "DELETE FROM " \o table.s, args |-> <<>>, err |-> wh.err]
        ELSE Ok("DELETE FROM " \o table.s \o whereText(wh, b.wheres), wh.args)))

CompileDelete(b) ==
    IF b.table = "" THEN Fail(ErrNoTable)
    ELSE With(WrapTable(b.table), LAMBDA table :
        IF table.err # NoError THEN Fail(table.err)
        ELSE With(compileWheres(b.wheres), LAMBDA wh :
        IF wh.err # NoError THEN Fail(wh.err)
        ELSE Ok("DELETE FROM " \o table.s \o whereText(wh, b.wheres), wh.args)))

CompileExists(b) ==
    IF b.table = "" THEN Fail(ErrNoTable)
    ELSE With(WrapTable(b.table), LAMBDA table :
        IF table.err # NoError THEN Fail(table.err)
        ELSE With(compileWheres(b.wheres), LAMBDA wh :
        IF wh.err # NoError THEN Fail(wh.err)
        ELSE Ok("SELECT EXISTS(SELECT 1 FROM " \o table.s \o whereText(wh, b.wheres)
                \o " LIMIT 1)", wh.args)))

CompileCount(b, column) ==
    IF b.table = "" THEN Fail(ErrNoTable)
    ELSE With(IF column # "" THEN Wrap(column) ELSE [s |-> "*", err |-> NoError],
              LAMBDA wrapped :
        IF wrapped.err # NoError THEN Fail(wrapped.err)
        ELSE With(WrapTable(b.table), LAMBDA table :
        IF table.err # NoError THEN Fail(table.err)
        ELSE With(compileWheres(b.wheres), LAMBDA wh :
        IF wh.err # NoError THEN Fail(wh.err)
        ELSE Ok("SELECT COUNT(" \o wrapped.s \o ") FROM " \o table.s
                \o whereText(wh, b.wheres),
                wh.args))))

CompileAggregate(b, fn, column) ==
    IF b.table = "" THEN Fail(ErrNoTable)
    ELSE IF column = "" THEN Fail(ErrNoColumns)
    ELSE With(Wrap(column), LAMBDA wrapped :
        IF wrapped.err # NoError THEN Fail(wrapped.err)
        ELSE With(WrapTable(b.table), LAMBDA table :
        IF table.err # NoError THEN Fail(table.err)
        ELSE With(compileWheres(b.wheres), LAMBDA wh :
        IF wh.err # NoError THEN Fail(wh.err)
        ELSE Ok("SELECT " \o ToUpper(fn) \o "(" \o wrapped.s \o ") FROM " \o table.s
                \o whereText(wh, b.wheres),
                wh.args))))

\* CompileTruncate returns (sql, err); args stays empty.
CompileTruncate(b) ==
    IF b.table = "" THEN Fail(ErrNoTable)
    ELSE With(WrapTable(b.table), LAMBDA table :
        IF table.err # NoError THEN Fail(table.err)
        ELSE Ok("TRUNCATE TABLE " \o table.s, <<>>))

\* iter and iter2 are the enumeration orders of the two loops over data.
CompileUpsert(b, data, updateColumns, iter, iter2) ==
    With(CompileInsert(b, data, iter), LAMBDA ins :
        IF ins.err # NoError THEN Fail(ins.err)
        ELSE With(IF Len(updateColumns) = 0 THEN sortedKeys(iter2) ELSE updateColumns,
                  LAMBDA updCols :
        With(WrapEach(updCols), LAMBDA cols :
        IF cols.err # NoError THEN Fail(cols.err)
        ELSE Ok(ins.sql \o " ON DUPLICATE KEY UPDATE "
                \o Join([i \in 1..Len(updCols) |->
                            cols.out[i] \o " = VALUES(" \o cols.out[i] \o ")"], ", "),
                ins.args))))

(***************************************************************************)
(* Builder: the query descriptor and its fluent mutators                   *)
(***************************************************************************)

\* NewBuilder.  A nil *int is <<>>, a set one is <<n>>.
NewBuilder ==
    [table |-> "", tableAlias |-> "", columns |-> <<>>, distinct |-> FALSE,
     wheres |-> <<>>, orders |-> <<>>, joins |-> <<>>, groupBy |-> <<>>,
     having |-> <<>>, limit |-> <<>>, offset |-> <<>>, err |-> NoError]

BasicWhere(boolean, column, operator, value) ==
    WhereClause("Basic", boolean, column, operator, value, <<>>, <<>>, "", <<>>)

BTable(bb, name) == [bb EXCEPT !.table = name]
BTableAs(bb, name, alias) == [bb EXCEPT !.table = name, !.tableAlias = alias]
BSelect(bb, cols) == [bb EXCEPT !.columns = @ \o cols]
BSelectRaw(bb, expr) == [bb EXCEPT !.columns = Append(@, expr)]
BDistinct(bb) == [bb EXCEPT !.distinct = TRUE]
\* Where that validates its operator and keeps the error in the Builder.
BWhereValidating(bb, column, operator, value) ==
    IF ValidateOperator(operator) # NoError
    THEN [bb EXCEPT !.err = ValidateOperator(operator)]
    ELSE [bb EXCEPT !.wheres = Append(@, BasicWhere("AND", column, operator, value))]
BWhere(bb, column, operator, value) ==
    [bb EXCEPT !.wheres = Append(@, BasicWhere("AND", column, operator, value))]
BOrWhere(bb, column, operator, value) ==
    [bb EXCEPT !.wheres = Append(@, BasicWhere("OR", column, operator, value))]
BWhereIn(bb, column, values) ==
    [bb EXCEPT !.wheres = Append(@,
        WhereClause("In", "AND", column, "", NilValue, values, <<>>, "", <<>>))]
BWhereNotIn(bb, column, values) ==
    [bb EXCEPT !.wheres = Append(@,
        WhereClause("NotIn", "AND", column, "", NilValue, values, <<>>, "", <<>>))]
BWhereBetween(bb, column, min, max) ==
    [bb EXCEPT !.wheres = Append(@,
        WhereClause("Between", "AND", column, "", NilValue, <<min, max>>, <<>>, "", <<>>))]
BWhereNull(bb, column) ==
    [bb EXCEPT !.wheres = Append(@,
        WhereClause("Null", "AND", column, "", NilValue, <<>>, <<>>, "", <<>>))]
BOrWhereNotNull(bb, column) ==
    [bb EXCEPT !.wheres = Append(@,
        WhereClause("NotNull", "OR", column, "", NilValue, <<>>, <<>>, "", <<>>))]
BWhereRaw(bb, sqlExpr, bindings) ==
    [bb EXCEPT !.wheres = Append(@,
        WhereClause("Raw", "AND", "", "", NilValue, <<>>, <<>>, sqlExpr, bindings))]
\* WhereNested(fn): `nested` is the fresh Builder after fn ran on it.
BWhereNested(bb, nested) ==
    [bb EXCEPT !.wheres = Append(@,
        WhereClause("Nested", "AND", "", "", NilValue, <<>>, nested.wheres, "", <<>>))]
BOrWhereNested(bb, nested) ==
    [bb EXCEPT !.wheres = Append(@,
        WhereClause("Nested", "OR", "", "", NilValue, <<>>, nested.wheres, "", <<>>))]
BWhereDate(bb, column, value) ==
    [bb EXCEPT !.wheres = Append(@,
        WhereClause("Date", "AND", column, "", value, <<>>, <<>>, "", <<>>))]
BJoin(bb, table, first, operator, second) ==
    [bb EXCEPT !.joins = Append(@, JoinClause(JoinInner, table, first, operator, second))]
BLeftJoin(bb, table, first, operator, second) ==
    [bb EXCEPT !.joins = Append(@, JoinClause(JoinLeft, table, first, operator, second))]
BRightJoin(bb, table, first, operator, second) ==
    [bb EXCEPT !.joins = Append(@, JoinClause(JoinRight, table, first, operator, second))]
BCrossJoin(bb, table) ==
    [bb EXCEPT !.joins = Append(@, JoinClause(JoinCross, table, "", "", ""))]
BOrderBy(bb, column, direction) ==
    [bb EXCEPT !.orders = Append(@, OrderClause(column, direction, ""))]
BOrderByRaw(bb, expr) ==
    [bb EXCEPT !.orders = Append(@, OrderClause("", "", expr))]
BGroupBy(bb, cols) == [bb EXCEPT !.groupBy = @ \o cols]
BHaving(bb, column, operator, value) ==
    [bb EXCEPT !.having = Append(@, BasicWhere("AND", column, operator, value))]
BHavingRaw(bb, sqlExpr, bindings) ==
    [bb EXCEPT !.having = Append(@,
        WhereClause("Raw", "AND", "", "", NilValue, <<>>, <<>>, sqlExpr, bindings))]
BLimit(bb, n) == [bb EXCEPT !.limit = <<n>>]
BOffset(bb, n) == [bb EXCEPT !.offset = <<n>>]

(***************************************************************************)
(* Inputs                                                                  *)
(***************************************************************************)

\* At most MaxCalls fluent calls are made on one Builder.
MaxCalls == 1

BadId == "x;y"

\* The descriptor of "select with nested where" (tests/mysql_test.go).
NestedFixture ==
    BWhereNested(BWhere(BTable(NewBuilder, "users"), "status", "=", "active"),
                 BOrWhere(BWhere(NewBuilder, "role", "=", "admin"),
                          "role", "=", "moderator"))

\* The descriptor of "complex query" (tests/mysql_test.go), with the join,
\* grouping and HAVING clauses of the neighbouring cases added.
ComplexFixture ==
    BOffset(BLimit(
        BOrderBy(
            BHaving(BGroupBy(
                BWhereIn(BWhere(
                    BLeftJoin(
                        BSelect(BTable(NewBuilder, "users"), <<"id", "name">>),
                        "profiles", "users.id", "=", "profiles.user_id"),
                    "status", "=", "active"),
                    "role", <<"admin", "user">>),
                <<"status">>), "total", ">", "100"),
            "created_at", OrderDesc),
        10), 0)

Fixtures == {NewBuilder, BTable(NewBuilder, "users"), NestedFixture, ComplexFixture}

EmptyMap == [k \in {} |-> ""]

\* The orders in which a map's keys can be enumerated.
Orderings(S) ==
    {seq \in [1..Cardinality(S) -> S] : \A i, j \in 1..Cardinality(S) : i # j => seq[i] # seq[j]}

(***************************************************************************)
(* State machine                                                           *)
(***************************************************************************)

\* b: the Builder; calls: fluent calls made on it; res: what the most recent
\* call returned when that call was a compile call, with the call's inputs.
VARIABLES b, calls, res

\* The state of the other components, each exercised by a specification of
\* its own: a Builder and its Clone with the arrays their predicates refer
\* to (heap, orig, clone, last), one Transaction handle (tx), and one call
\* of the validation package (val).  A specification leaves the components
\* it does not exercise Unused.
VARIABLES heap, orig, clone, last, tx, val

vars == <<b, calls, res, heap, orig, clone, last, tx, val>>

Unused == "unused"
grammarVars == <<b, calls, res>>
builderVars == <<heap, orig, clone, last>>
BuilderUnused == heap = Unused /\ orig = Unused /\ clone = Unused /\ last = Unused

NoResult ==
    [op |-> "none", sql |-> "", args |-> <<>>, err |-> NoError,
     data |-> EmptyMap, rows |-> <<>>, column |-> "", fn |-> "", updateColumns |-> <<>>]

Init ==
    /\ b \in Fixtures
    /\ calls = 0
    /\ res = NoResult
    /\ BuilderUnused /\ tx = Unused /\ val = Unused

Fluent(nb) ==
    /\ calls < MaxCalls
    /\ b' = nb
    /\ calls' = calls + 1
    /\ res' = NoResult
    /\ UNCHANGED <<builderVars, tx, val>>

Table ==
    \E name \in
            {"users u", "db.users", "users; DROP TABLE users"} :
        Fluent(BTable(b, name))

TableAs == \E a \in {<<"users", "u">>} : Fluent(BTableAs(b, a[1], a[2]))

Select ==
    \E col \in
            {"id", "*", "id;--", "id; DROP TABLE users;--"} :
        Fluent(BSelect(b, <<col>>))

SelectRaw == \E expr \in {"IFNULL(a, ?) AS n"} : Fluent(BSelectRaw(b, expr))

Distinct == Fluent(BDistinct(b))

Where ==
    \E a \in
            {<<"status", "=", "' OR '1'='1">>, <<BadId, "=", "active">>,
             <<"id", "= OR 1=1--", "1 OR 1=1">>, <<"name", " like ", "a%">>,
             <<"name", "not like", "a%">>,
             <<"*", "=", "active">>} :
        Fluent(BWhere(b, a[1], a[2], a[3]))

OrWhere == \E a \in {<<"role", "=", "admin">>} : Fluent(BOrWhere(b, a[1], a[2], a[3]))

WhereIn ==
    \E a \in
            {<<"id", <<"1", "2); DROP TABLE users;--">> >>, <<"id", <<>> >>} :
        Fluent(BWhereIn(b, a[1], a[2]))

WhereNotIn == \E a \in {<<BadId, <<"x", "y">> >>} : Fluent(BWhereNotIn(b, a[1], a[2]))

WhereBetween ==
    \E a \in
            {<<"age", "18", "65">>} :
        Fluent(BWhereBetween(b, a[1], a[2], a[3]))

WhereNull == \E c \in {"deleted_at"} : Fluent(BWhereNull(b, c))

OrWhereNotNull == \E c \in {BadId} : Fluent(BOrWhereNotNull(b, c))

WhereRaw ==
    \E a \in
            {<<"a = ?", <<"1">> >>, <<"a = 1", <<"x">> >>} :
        Fluent(BWhereRaw(b, a[1], a[2]))

WhereNested ==
    \E nested \in
            {NewBuilder,
             BOrWhere(BWhere(NewBuilder, "role", "=", "admin"), "role", "=", "moderator"),
             BWhere(NewBuilder, "role", "LIKE; DELETE FROM users;--", "admin"),
             BOrWhereNested(BWhere(NewBuilder, "a", "<", "1"),
                            BWhere(BWhereNull(NewBuilder, "b"), BadId, "=", "2"))} :
        Fluent(BWhereNested(b, nested))

OrWhereNested ==
    \E nested \in
            {BWhereNested(BWhere(NewBuilder, "a", "<", "1"),
                          BOrWhere(BWhereNull(NewBuilder, "b"), "c", ">=", "2"))} :
        Fluent(BOrWhereNested(b, nested))

WhereDate == \E a \in {<<"created_at", "2024-01-01">>} : Fluent(BWhereDate(b, a[1], a[2]))

JoinOn ==
    \E a \in
            {<<"profiles p", "users.id", " <= ", "p.user_id">>,
             <<"profiles", "users.name", "like", "profiles.name">>,
             <<"admin", "users.id", "= OR 1=1;--", BadId>>,
             <<"admin'; DROP TABLE admin;--", "users.id", "=", "admin.user_id">>,
             <<"admin", "*", "=", "admin.user_id">>} :
        Fluent(BJoin(b, a[1], a[2], a[3], a[4]))

LeftJoin ==
    \E a \in
            {<<"profiles", "users.id; DROP TABLE users", "=", "profiles.user_id">>} :
        Fluent(BLeftJoin(b, a[1], a[2], a[3], a[4]))

RightJoin ==
    \E a \in
            {<<"orders o", "users.id", "=", "o.user_id">>} :
        Fluent(BRightJoin(b, a[1], a[2], a[3], a[4]))

CrossJoin == \E t \in {"colors", BadId} : Fluent(BCrossJoin(b, t))

OrderBy ==
    \E a \in
            {<<"name", OrderAsc>>, <<BadId, OrderAsc>>, <<"*", OrderAsc>>, <<"name", "">>,
             <<"name", "ASC, (SELECT 1)">>} :
        Fluent(BOrderBy(b, a[1], a[2]))

OrderByRaw == \E expr \in {"RAND()"} : Fluent(BOrderByRaw(b, expr))

GroupBy == \E c \in {"role", BadId, "*"} : Fluent(BGroupBy(b, <<c>>))

Having ==
    \E a \in
            {<<BadId, ">", "100">>, <<"total", "=1 OR 1=1", "100">>} :
        Fluent(BHaving(b, a[1], a[2], a[3]))

HavingRaw == \E a \in {<<"COUNT(*) > ?", <<"5">> >>} : Fluent(BHavingRaw(b, a[1], a[2]))

Limit == \E n \in {5} : Fluent(BLimit(b, n))

Offset == \E n \in {20} : Fluent(BOffset(b, n))

\* A predicate put into the descriptor literally, as the grammar tests do:
\* BETWEEN with one value, and a kind outside the enumeration.
LiteralWhere ==
    \E w \in
            {WhereClause("Between", "AND", "age", "", NilValue, <<"18">>, <<>>, "", <<>>),
             WhereClause("Unknown", "AND", "age", "", NilValue, <<>>, <<>>, "", <<>>)} :
        Fluent([b EXCEPT !.wheres = Append(@, w)])

\* A join put into the descriptor literally, with a kind that is none of
\* the JoinType constants.
LiteralJoin ==
    \E j \in
            {JoinClause("NATURAL", "profiles", "users.id", "=", "profiles.user_id")} :
        Fluent([b EXCEPT !.joins = Append(@, j)])

\* A compile call of the grammar on the descriptor returns r.  Compiling
\* leaves b as it is, so a compile call that follows another one returns
\* what it would have returned in its place: the calls are taken one per
\* state of the descriptor.
Returned(call, r) ==
    /\ res.op = "none"
    /\ res' = [call EXCEPT !.sql = r.sql, !.args = r.args, !.err = r.err]
    /\ UNCHANGED <<b, calls, builderVars, tx, val>>

Call(op) == [NoResult EXCEPT !.op = op]

SelectSQL == Returned(Call("Select"), CompileSelect(b))

InsertSQL ==
    \E data \in
            {[name |-> "John'); DROP TABLE users;--", email |-> "j@x.com"],
             (BadId :> "v") @@ [name |-> "John"],
             [Zed |-> "1", a_b |-> "2", a1 |-> "3"],
             EmptyMap} :
        \E iter \in Orderings(DOMAIN data) :
            Returned([Call("Insert") EXCEPT !.data = data], CompileInsert(b, data, iter))

InsertBatchSQL ==
    \E rows \in
            {<<>>,
             <<EmptyMap>>,
             <<[name |-> "A", email |-> "a@x"], [name |-> "B", email |-> "b@x"]>>,
             <<[name |-> "A", email |-> "a@x"], [name |-> "B"]>>,
             <<[name |-> "A", email |-> "a@x"], [name |-> "B", phone |-> "1"]>>} :
        \E iter \in Orderings(IF rows = <<>> THEN {} ELSE DOMAIN rows[1]) :
            Returned([Call("InsertBatch") EXCEPT !.rows = rows],
                     CompileInsertBatch(b, rows, iter))

UpdateSQL ==
    \E data \in
            {[name |-> "Jane", status |-> "inactive"], ("*" :> "v"), EmptyMap} :
        \E iter \in Orderings(DOMAIN data) :
            Returned([Call("Update") EXCEPT !.data = data], CompileUpdate(b, data, iter))

DeleteSQL == Returned(Call("Delete"), CompileDelete(b))

ExistsSQL == Returned(Call("Exists"), CompileExists(b))

CountSQL ==
    \E column \in {"", "id", BadId, "*"} :
        Returned([Call("Count") EXCEPT !.column = column], CompileCount(b, column))

AggregateSQL ==
    \E a \in
            {<<"sum", "amount">>, <<"max", BadId>>, <<"avg", "">>,
             <<"if(?, 1, 0) + sum", "amount">>} :
        Returned([Call("Aggregate") EXCEPT !.fn = a[1], !.column = a[2]],
                 CompileAggregate(b, a[1], a[2]))

TruncateSQL == Returned(Call("Truncate"), CompileTruncate(b))

UpsertSQL ==
    \E a \in
            {<<[name |-> "John", email |-> "j@x.com"], <<>> >>,
             <<[name |-> "John", email |-> "j@x.com"], <<"name">> >>,
             <<[name |-> "John", email |-> "j@x.com"], <<"name", BadId>> >>,
             <<[name |-> "John", email |-> "j@x.com"], <<"name", "email">> >>,
             <<[name |-> "John", email |-> "j@x.com"], <<"u.name">> >>,
             <<[name |-> "John", email |-> "j@x.com"], <<"*">> >>,
             <<(BadId :> "v"), <<"name">> >>,
             <<EmptyMap, <<"name">> >>} :
        \E iter, iter2 \in Orderings(DOMAIN a[1]) :
            Returned([Call("Upsert") EXCEPT !.data = a[1], !.updateColumns = a[2]],
                 CompileUpsert(b, a[1], a[2], iter, iter2))

Next ==
    \/ Table \/ TableAs \/ Select \/ SelectRaw \/ Distinct
    \/ Where \/ OrWhere \/ WhereIn \/ WhereNotIn \/ WhereBetween
    \/ WhereNull \/ OrWhereNotNull \/ WhereRaw \/ WhereNested \/ OrWhereNested
    \/ WhereDate \/ JoinOn \/ LeftJoin \/ RightJoin \/ CrossJoin
    \/ OrderBy \/ OrderByRaw \/ GroupBy \/ Having \/ HavingRaw
    \/ Limit \/ Offset \/ LiteralWhere \/ LiteralJoin
    \/ SelectSQL \/ InsertSQL \/ InsertBatchSQL \/ UpdateSQL \/ DeleteSQL
    \/ ExistsSQL \/ CountSQL \/ AggregateSQL \/ TruncateSQL \/ UpsertSQL

Spec == Init /\ [][Next]_vars
(***************************************************************************)
(* What a compile call reads from the descriptor                           *)
(***************************************************************************)

Called == res.op # "none"
Succeeded == Called /\ res.err = NoError

\* The statement kinds whose compile method compiles the WHERE list.
UsesWheres(op) == op \in {"Select", "Update", "Delete", "Exists", "Count", "Aggregate"}

\* The predicate lists the call compiles.
UsedLists ==
    (IF UsesWheres(res.op) /\ Len(b.wheres) > 0 THEN {b.wheres} ELSE {})
        \cup (IF res.op = "Select" /\ Len(b.having) > 0 THEN {b.having} ELSE {})

\* Every predicate of a list, at any nesting depth.
RECURSIVE AllPredicates(_)
AllPredicates(list) ==
    UNION {{list[i]} \cup AllPredicates(list[i].Nested) : i \in 1..Len(list)}

UsedPredicates == UNION {AllPredicates(l) : l \in UsedLists}

UsedJoins == IF res.op = "Select" THEN {b.joins[i] : i \in 1..Len(b.joins)} ELSE {}

ColumnKinds ==
    {"Basic", "In", "NotIn", "Between", "NotBetween", "Null", "NotNull",
     "Date", "Year", "Month", "Day"}

\* The strings the call receives as a table name or JOIN table.
TableIds == {b.table} \cup {j.Table : j \in UsedJoins}

\* The strings the call receives as a column or key: JOIN columns,
\* WHERE/HAVING columns, GROUP BY and non-raw ORDER BY columns, data keys,
\* update columns, the COUNT/aggregate column.
ColumnIds ==
    {j.First : j \in {k \in UsedJoins : k.Type # JoinCross}}
        \cup {j.Second : j \in {k \in UsedJoins : k.Type # JoinCross}}
        \cup {w.Column : w \in {p \in UsedPredicates : p.Type \in ColumnKinds}}
        \cup (IF res.op = "Select"
                THEN {b.groupBy[i] : i \in 1..Len(b.groupBy)}
                     \cup {b.orders[i].Column :
                             i \in {k \in 1..Len(b.orders) : b.orders[k].Raw = ""}}
                ELSE {})
        \cup (IF res.op \in {"Insert", "Update", "Upsert"} THEN DOMAIN res.data ELSE {})
        \cup (IF res.op = "Upsert"
                THEN {res.updateColumns[i] : i \in 1..Len(res.updateColumns)} ELSE {})
        \cup (IF res.op = "InsertBatch" /\ Len(res.rows) > 0 THEN DOMAIN res.rows[1] ELSE {})
        \cup (IF res.op \in {"Count", "Aggregate"} THEN {res.column} ELSE {})

Invalid(s) == ValidateIdentifier(s) # NoError

\* s occurs in the text (a non-empty s).
Appears(s, text) == s # "" /\ Contains(text, s)

(***************************************************************************)
(* C1                                                                      *)
(***************************************************************************)

AllSpaces(s) == s # "" /\ \A i \in 1..Len(s) : IsSpace(Char(s, i))

\* "name alias" or "name AS alias": two words without a dot, separated by
\* white space, with an optional AS (in any letter case) between them.
AliasForm(s) ==
    \E i \in 1..Len(s) : \E j \in (i + 2)..Len(s) :
        /\ IsWord(SubSeq(s, 1, i))
        /\ AllSpaces(SubSeq(s, i + 1, j - 1))
        /\ \/ IsWord(SubSeq(s, j, Len(s)))
           \/ \E k \in (j + 3)..Len(s) :
                /\ ToUpper(SubSeq(s, j, j + 1)) = "AS"
                /\ AllSpaces(SubSeq(s, j + 2, k - 1))
                /\ IsWord(SubSeq(s, k, Len(s)))

C2_ColumnListValidated ==
    res.op = "Select" =>
        \A i \in 1..Len(b.columns) :
            Invalid(b.columns[i]) /\ b.columns[i] # "*" => res.err # NoError

(***************************************************************************)
(* C3                                                                      *)
(***************************************************************************)

AllowSet ==
    {"=", "!=", "<>", "<", ">", "<=", ">=", "<=>", "LIKE", "NOT LIKE", "IS", "IS NOT",
     "IN", "NOT IN", "BETWEEN", "NOT BETWEEN"}

BadOperator(op) == ToUpper(TrimSpace(op)) \notin AllowSet

\* The operators the call reaches or would reach: those of Basic predicates
\* at any depth and of non-Cross joins.
UsedOperators ==
    {w.Operator : w \in {p \in UsedPredicates : p.Type = "Basic"}}
        \cup {j.Operator : j \in {k \in UsedJoins : k.Type # JoinCross}}

Run(bb, call, iter, iter2) ==
    CASE call.op = "Select" -> CompileSelect(bb)
      [] call.op = "Insert" -> CompileInsert(bb, call.data, iter)
      [] call.op = "InsertBatch" -> CompileInsertBatch(bb, call.rows, iter)
      [] call.op = "Update" -> CompileUpdate(bb, call.data, iter)
      [] call.op = "Delete" -> CompileDelete(bb)
      [] call.op = "Exists" -> CompileExists(bb)
      [] call.op = "Count" -> CompileCount(bb, call.column)
      [] call.op = "Aggregate" -> CompileAggregate(bb, call.fn, call.column)
      [] call.op = "Truncate" -> CompileTruncate(bb)
      [] call.op = "Upsert" -> CompileUpsert(bb, call.data, call.updateColumns, iter, iter2)

\* The keys whose enumeration order the call depends on.
CallKeys(call) ==
    IF call.op = "InsertBatch"
        THEN (IF call.rows = <<>> THEN {} ELSE DOMAIN call.rows[1])
        ELSE DOMAIN call.data

\* Another content for a value: no SQL text the grammar writes contains it.
Mark(v) == "<<" \o v \o ">>"
MarkAll(vs) == [i \in 1..Len(vs) |-> Mark(vs[i])]
MarkMap(data) == [k \in DOMAIN data |-> Mark(data[k])]

RECURSIVE MarkWheres(_)
MarkWheres(list) ==
    [i \in 1..Len(list) |->
        [list[i] EXCEPT !.Value = Mark(@), !.Values = MarkAll(@),
                        !.Bindings = MarkAll(@), !.Nested = MarkWheres(@)]]

MarkBuilder(bb) == [bb EXCEPT !.wheres = MarkWheres(@), !.having = MarkWheres(@)]
MarkCall(call) ==
    [call EXCEPT !.data = MarkMap(@),
                 !.rows = [i \in 1..Len(call.rows) |-> MarkMap(call.rows[i])]]

\* C4: the same call on a descriptor that differs only in the contents of
\* its values returns the same SQL text and the same error, its arguments
\* are the changed values at the same positions, and no value is part of
\* the SQL text.
C4_ValuesOnlyInArgs ==
    Called =>
        \A iter, iter2 \in Orderings(CallKeys(res)) :
            LET r == Run(MarkBuilder(b), MarkCall(res), iter, iter2)
            IN  /\ r.sql = res.sql
                /\ r.err = res.err
                /\ r.args = MarkAll(res.args)
                /\ \A i \in 1..Len(r.args) : ~Contains(r.sql, r.args[i])

\* A statement compiled with an injection attempt among its IN values.
C4_Witness ==
    /\ Succeeded
    /\ res.op = "Delete"
    /\ \E i \in 1..Len(res.args) : res.args[i] = "2); DROP TABLE users;--"
    /\ Contains(res.sql, "IN (?, ?)")

(***************************************************************************)
(* C5                                                                      *)
(***************************************************************************)

Sum(f) ==
    LET RECURSIVE Upto(_)
        Upto(n) == IF n = 0 THEN 0 ELSE f[n] + Upto(n - 1)
    IN  Upto(Len(f))

Marks(text) == Cardinality({i \in 1..Len(text) : Char(text, i) = "?"})

\* The "?" characters and the bindings that RawText predicates carry.
RECURSIVE RawMarks(_)
RawMarks(list) ==
    Sum([i \in 1..Len(list) |->
            IF list[i].Type = "Raw" THEN Marks(list[i].Raw)
            ELSE IF list[i].Type = "Nested" THEN RawMarks(list[i].Nested)
            ELSE 0])

RECURSIVE RawBindings(_)
RawBindings(list) ==
    Sum([i \in 1..Len(list) |->
            IF list[i].Type = "Raw" THEN Len(list[i].Bindings)
            ELSE IF list[i].Type = "Nested" THEN RawBindings(list[i].Nested)
            ELSE 0])

UsedWheres == IF UsesWheres(res.op) THEN b.wheres ELSE <<>>
UsedHaving == IF res.op = "Select" THEN b.having ELSE <<>>

\* The "?" characters in the texts the call copies from its caller as they
\* are: RawText predicates, raw SELECT columns, raw ORDER BY text, ORDER BY
\* directions, JOIN kinds and the aggregate function name.
PassThroughMarks ==
    RawMarks(UsedWheres) + RawMarks(UsedHaving)
        + (IF res.op = "Select"
            THEN Sum([i \in 1..Len(b.columns) |->
                        IF ContainsAny(b.columns[i], " ()") THEN Marks(b.columns[i]) ELSE 0])
                 + Sum([i \in 1..Len(b.orders) |->
                        IF b.orders[i].Raw # "" THEN Marks(b.orders[i].Raw)
                        ELSE Marks(b.orders[i].Direction)])
                 + Sum([i \in 1..Len(b.joins) |->
                        IF b.joins[i].Type = JoinCross THEN 0 ELSE Marks(b.joins[i].Type)])
            ELSE 0)
        + (IF res.op = "Aggregate" THEN Marks(res.fn) ELSE 0)

\* C5 as stated: in every successfully compiled statement the number of "?"
\* in the SQL equals the number of arguments, raw fragments included.
C5_AsStated == Succeeded => Marks(res.sql) = Len(res.args)

\* C5 amended: the "?" the grammar writes itself are as many as the
\* arguments it collects itself; the "?" of pass-through texts and the
\* bindings of RawText predicates are copied uncounted.  So the two
\* numbers are equal exactly when the pass-through texts hold as many "?"
\* as there are RawText bindings.
C5_PlaceholdersMatchArgs ==
    Succeeded =>
        Marks(res.sql) - PassThroughMarks
            = Len(res.args) - (RawBindings(UsedWheres) + RawBindings(UsedHaving))

\* A statement with placeholders of its own and a RawText predicate whose
\* bindings do not match its text.
C5_Witness ==
    /\ Succeeded
    /\ res.op = "Select"
    /\ \E w \in UsedPredicates : w.Type = "Raw" /\ Marks(w.Raw) # Len(w.Bindings)
    /\ Marks(res.sql) >= 4
    /\ Marks(res.sql) # Len(res.args)

(***************************************************************************)
(* C6                                                                      *)
(***************************************************************************)

\* The position of the first occurrence of sub in s, 0 when there is none.
Index(s, sub) ==
    LET at == {i \in 1..(Len(s) - Len(sub) + 1) : SubSeq(s, i, i + Len(sub) - 1) = sub}
    IN  IF at = {} THEN 0 ELSE CHOOSE i \in at : \A j \in at : i <= j

\* The keys of a map from the smallest to the largest.
Ascending(S) ==
    CHOOSE o \in Orderings(S) : \A i, j \in 1..Len(o) : i < j => StrLess(o[i], o[j])

\* C6: CompileInsert and CompileUpdate return the same text, arguments and
\* error for every enumeration order of the data map; on success the
\* columns stand in ascending key order, the i-th argument is the value of
\* the i-th smallest key, and the WHERE arguments of CompileUpdate follow.
C6_MapOrderIrrelevant ==
    res.op \in {"Insert", "Update"} =>
        /\ \A iter \in Orderings(DOMAIN res.data) :
                LET r == Run(b, res, iter, iter)
                IN  r.sql = res.sql /\ r.args = res.args /\ r.err = res.err
        /\ Succeeded =>
                LET ks == Ascending(DOMAIN res.data)
                    n == Len(ks)
                IN  /\ \A i \in 1..n : Index(res.sql, Wrap(ks[i]).s) > 0
                    /\ \A i \in 1..(n - 1) :
                            Index(res.sql, Wrap(ks[i]).s) < Index(res.sql, Wrap(ks[i + 1]).s)
                    /\ SubSeq(res.args, 1, n) = [i \in 1..n |-> res.data[ks[i]]]
                    /\ SubSeq(res.args, n + 1, Len(res.args))
                            = (IF res.op = "Update" THEN compileWheres(b.wheres).args ELSE <<>>)

\* An update of two columns with a WHERE clause of its own arguments.
C6_Witness ==
    /\ Succeeded
    /\ res.op = "Update"
    /\ DOMAIN res.data = {"name", "status"}
    /\ res.args = <<"Jane", "inactive", "active", "admin", "user">>

(***************************************************************************)
(* C7                                                                      *)
(***************************************************************************)

HasPrefix(s, prefix) == Len(prefix) <= Len(s) /\ SubSeq(s, 1, Len(prefix)) = prefix

\* The words every statement of a kind begins with.
Verb(op) ==
    CASE op \in {"Select", "Exists", "Count", "Aggregate"} -> "SELECT "
      [] op \in {"Insert", "InsertBatch", "Upsert"} -> "INSERT INTO "
      [] op = "Update" -> "UPDATE "
      [] op = "Delete" -> "DELETE FROM "
      [] op = "Truncate" -> "TRUNCATE TABLE "

\* C7: every compile call returns either a statement and no error, or an
\* error with empty text and no arguments.
C7_AllOrNothing ==
    Called =>
        \/ res.err = NoError /\ res.sql # "" /\ HasPrefix(res.sql, Verb(res.op))
        \/ res.err # NoError /\ res.sql = "" /\ res.args = <<>>

\* A SELECT that fails in its last clauses, after the text and arguments
\* of the WHERE clause were assembled.
C7_Witness ==
    /\ res.op = "Select"
    /\ res.err # NoError
    /\ res.sql = "" /\ res.args = <<>>
    /\ compileWheres(b.wheres).err = NoError
    /\ compileWheres(b.wheres).args # <<>>
    /\ b.orders # <<>>
    /\ Wrap(b.orders[Len(b.orders)].Column).err # NoError

(***************************************************************************)
(* C8                                                                      *)
(***************************************************************************)

\* C8: with a valid table and valid keys in a non-empty first row, a batch
\* in which some row's key set differs from the first row's fails with
\* InconsistentBatch, and any other batch compiles to one VALUES tuple per
\* row with the rows' values in row order, each row in ascending key order.
C8_BatchUniform ==
    /\ res.op = "InsertBatch"
    /\ b.table # "" /\ WrapTable(b.table).err = NoError
    /\ res.rows # <<>>
    /\ DOMAIN res.rows[1] # {}
    /\ \A k \in DOMAIN res.rows[1] : ~Invalid(k)
    =>  IF \E i \in 1..Len(res.rows) : DOMAIN res.rows[i] # DOMAIN res.rows[1]
        THEN res.err = ErrInconsistentBatch
        ELSE LET ks == Ascending(DOMAIN res.rows[1])
                 n == Len(ks)
             IN  /\ res.err = NoError
                 /\ Count(res.sql, "(") = Len(res.rows) + 1
                 /\ Count(res.sql, ")") = Len(res.rows) + 1
                 /\ Marks(res.sql) = Len(res.rows) * n
                 /\ res.args = [k \in 1..(Len(res.rows) * n) |->
                                    res.rows[((k - 1) \div n) + 1][ks[((k - 1) % n) + 1]]]

\* A batch whose second row has as many keys as the first, but another one.
C8_Witness ==
    /\ res.op = "InsertBatch"
    /\ b.table = "users"
    /\ Len(res.rows) = 2
    /\ DOMAIN res.rows[1] = {"name", "email"}
    /\ DOMAIN res.rows[2] = {"name", "phone"}
    /\ res.err = ErrInconsistentBatch

(***************************************************************************)
(* C9                                                                      *)
(***************************************************************************)

\* The arguments a predicate that is not a group binds.
LeafArgs(w) ==
    CASE w.Type \in {"Basic", "Date", "Year", "Month", "Day"} -> <<w.Value>>
      [] w.Type \in {"In", "NotIn", "Between", "NotBetween"} -> w.Values
      [] w.Type = "Raw" -> w.Bindings
      [] OTHER -> <<>>

\* The text of a predicate list: the predicates in list order, each after
\* the first preceded by its own connector; the children of a group, when
\* it has any, inside one pair of parentheses.
RECURSIVE GroupedText(_)
GroupedText(list) ==
    LET part(w) ==
            IF w.Type # "Nested" THEN compileWhere(w).sql
            ELSE IF w.Nested = <<>> THEN ""
            ELSE "(" \o GroupedText(w.Nested) \o ")"
        n == Len(list)
    IN  IF n = 0 THEN ""
        ELSE IF n = 1 THEN part(list[1])
        ELSE GroupedText(SubSeq(list, 1, n - 1)) \o " " \o list[n].Boolean \o " "
                \o part(list[n])

\* The arguments of a predicate list, depth first and left to right.
RECURSIVE DepthFirstArgs(_)
DepthFirstArgs(list) ==
    IF list = <<>> THEN <<>>
    ELSE (IF list[1].Type = "Nested" THEN DepthFirstArgs(list[1].Nested)
          ELSE LeafArgs(list[1]))
            \o DepthFirstArgs(Tail(list))

IsSuffix(t, s) == Len(t) <= Len(s) /\ SubSeq(s, Len(s) - Len(t) + 1, Len(s)) = t

\* C9: in every statement compiled from a WHERE (or HAVING) list, the list
\* stands in the text grouped as it is nested, with the connectors of the
\* right-hand predicates, and the arguments are the predicates' arguments
\* depth first and left to right; [A, Nested[B, OR C]] is "A AND (B OR C)".
C9_ExactGrouping ==
    /\ Succeeded /\ UsedWheres # <<>> =>
            /\ Contains(res.sql, " WHERE " \o GroupedText(b.wheres))
            /\ res.op \in {"Delete", "Exists", "Count", "Aggregate"}
                    => res.args = DepthFirstArgs(b.wheres)
            /\ res.op = "Update" => IsSuffix(DepthFirstArgs(b.wheres), res.args)
            /\ res.op = "Select"
                    => res.args = DepthFirstArgs(b.wheres) \o DepthFirstArgs(b.having)
    /\ Succeeded /\ UsedHaving # <<>> =>
            Contains(res.sql, " HAVING " \o GroupedText(b.having))
    /\ res.op = "Select" /\ b = NestedFixture =>
            /\ res.sql = "SELECT * FROM ~users~ WHERE ~status~ = ? AND (~role~ = ? OR ~role~ = ?)"
            /\ res.args = <<"active", "admin", "moderator">>

\* A statement with a group inside a group.
C9_Witness ==
    /\ Succeeded
    /\ res.op = "Select"
    /\ \E i \in 1..Len(b.wheres) :
            /\ b.wheres[i].Type = "Nested"
            /\ \E j \in 1..Len(b.wheres[i].Nested) :
                    /\ j > 1
                    /\ b.wheres[i].Nested[j].Type = "Nested"
                    /\ Len(b.wheres[i].Nested[j].Nested) = 2
    /\ Len(res.args) >= 3

(***************************************************************************)
(* C10                                                                     *)
(***************************************************************************)

\* The words that open the clauses of a SELECT, in the order of the clauses.
ClauseWords ==
    <<" FROM ", " JOIN ", " WHERE ", " GROUP BY ", " HAVING ", " ORDER BY ",
      " LIMIT ", " OFFSET ">>

\* Whether the descriptor has the field of each clause.
ClauseSet ==
    <<TRUE, b.joins # <<>>, b.wheres # <<>>, b.groupBy # <<>>, b.having # <<>>,
      b.orders # <<>>, b.limit # <<>>, b.offset # <<>> >>

\* C10: a compiled SELECT has its clauses in the fixed order, each optional
\* clause exactly when its field is set, the joins in list order after the
\* table, and the WHERE arguments followed by the HAVING arguments.
C10_SelectClauseOrder ==
    Succeeded /\ res.op = "Select" =>
        /\ HasPrefix(res.sql, "SELECT ")
        /\ HasPrefix(res.sql, "SELECT DISTINCT ") <=> b.distinct
        /\ b.columns = <<>> =>
                HasPrefix(res.sql, (IF b.distinct THEN "SELECT DISTINCT " ELSE "SELECT ")
                                        \o "* FROM ")
        /\ \A i \in 1..Len(ClauseWords) :
                Contains(res.sql, ClauseWords[i]) <=> ClauseSet[i]
        /\ \A i, j \in 1..Len(ClauseWords) :
                i < j /\ ClauseSet[i] /\ ClauseSet[j]
                    => Index(res.sql, ClauseWords[i]) < Index(res.sql, ClauseWords[j])
        /\ Contains(res.sql,
                " FROM " \o WrapTable(b.table).s
                    \o Join([i \in 1..Len(b.joins) |-> " " \o compileJoin(b.joins[i]).s], ""))
        /\ b.limit # <<>> => Contains(res.sql, " LIMIT " \o Sprintd(b.limit[1]))
        /\ b.offset # <<>> => IsSuffix(" OFFSET " \o Sprintd(b.offset[1]), res.sql)
        /\ res.args = compileWheres(b.wheres).args \o compileWheres(b.having).args

\* A SELECT with two joins and every optional clause.
C10_Witness ==
    /\ Succeeded
    /\ res.op = "Select"
    /\ Len(b.joins) = 2
    /\ \A i \in 1..Len(ClauseSet) : ClauseSet[i]
    /\ Len(res.args) = 4

(***************************************************************************)
(* Builder: Clone, Reset and the lists its accessors return                *)
(*                                                                         *)
(* A Go slice is a reference to an array.  The six lists a Builder owns    *)
(* are values here: Clone copies each of them into a fresh array           *)
(* (make + copy), which a record copy is.  The lists inside a predicate    *)
(* (Values, Bindings, Nested) are references: heap[a] is the array at      *)
(* address a, and a predicate holds the address, as the WhereClause holds  *)
(* the slice header the caller passed.                                     *)
(***************************************************************************)

\* Calls made in one run of the Builder specification.
MaxBuilderCalls == 3

\* clone is <<>> until Clone is called and <<c>> when it returned c.
NoClone == <<>>

Clone(bb) ==
    [table |-> bb.table, tableAlias |-> bb.tableAlias, distinct |-> bb.distinct,
     limit |-> bb.limit, offset |-> bb.offset, err |-> bb.err,
     columns |-> [i \in 1..Len(bb.columns) |-> bb.columns[i]],
     wheres |-> [i \in 1..Len(bb.wheres) |-> bb.wheres[i]],
     orders |-> [i \in 1..Len(bb.orders) |-> bb.orders[i]],
     joins |-> [i \in 1..Len(bb.joins) |-> bb.joins[i]],
     groupBy |-> [i \in 1..Len(bb.groupBy) |-> bb.groupBy[i]],
     having |-> [i \in 1..Len(bb.having) |-> bb.having[i]]]

Reset(bb) ==
    [bb EXCEPT !.table = "", !.tableAlias = "", !.columns = <<>>, !.distinct = FALSE,
               !.wheres = <<>>, !.orders = <<>>, !.joins = <<>>, !.groupBy = <<>>,
               !.having = <<>>, !.limit = <<>>, !.offset = <<>>, !.err = NoError]

BuilderInit ==
    /\ heap = <<>>
    /\ orig = NewBuilder
    /\ clone = NoClone
    /\ last = [who |-> "orig", op |-> "NewBuilder", args |-> <<>>, n |-> 0]
    /\ b = Unused /\ calls = Unused /\ res = Unused /\ tx = Unused /\ val = Unused

\* The Builders that exist, by the name of the variable holding them.
Builders == IF clone = NoClone THEN {"orig"} ELSE {"orig", "clone"}
Target(who) == IF who = "orig" THEN orig ELSE clone[1]

\* The call op(args) on Builder who leaves it as nb and the arrays as h.
Did(who, op, args, nb, h) ==
    /\ last.n < MaxBuilderCalls
    /\ heap' = h
    /\ orig' = IF who = "orig" THEN nb ELSE orig
    /\ clone' = IF who = "clone" THEN <<nb>> ELSE clone
    /\ last' = [who |-> who, op |-> op, args |-> args, n |-> last.n + 1]
    /\ UNCHANGED <<grammarVars, tx, val>>

\* Table, Select, Distinct, Limit, Offset
SetterCall ==
    \E who \in Builders :
        \E c \in {<<"Table", "users", BTable(Target(who), "users")>>,
                  <<"Table", "orders", BTable(Target(who), "orders")>>,
                  <<"Select", <<"id">>, BSelect(Target(who), <<"id">>)>>,
                  <<"Select", <<"name", "email">>,
                    BSelect(Target(who), <<"name", "email">>)>>,
                  <<"Distinct", <<>>, BDistinct(Target(who))>>,
                  <<"Limit", 5, BLimit(Target(who), 5)>>,
                  <<"Limit", 10, BLimit(Target(who), 10)>>,
                  <<"Offset", 20, BOffset(Target(who), 20)>>} :
            Did(who, c[1], c[2], c[3], heap)

\* Where, Join, OrderBy, GroupBy, Having
AppenderCall ==
    \E who \in Builders :
        \E c \in {<<"Where", <<"status", "=", "active">>,
                    BWhere(Target(who), "status", "=", "active")>>,
                  <<"Join", <<"profiles", "users.id", "=", "profiles.user_id">>,
                    BJoin(Target(who), "profiles", "users.id", "=", "profiles.user_id")>>,
                  <<"OrderBy", <<"name", OrderAsc>>,
                    BOrderBy(Target(who), "name", OrderAsc)>>,
                  <<"GroupBy", <<"role">>, BGroupBy(Target(who), <<"role">>)>>,
                  <<"Having", <<"total", ">", "100">>,
                    BHaving(Target(who), "total", ">", "100")>>} :
            Did(who, c[1], c[2], c[3], heap)

\* WhereIn(column, values): the predicate keeps the caller's slice.
WhereInCall ==
    \E who \in Builders :
        \E values \in {<<"1", "2">>} :
            Did(who, "WhereIn", <<"id", values>>,
                BWhereIn(Target(who), "id", Len(heap) + 1), Append(heap, values))

\* WhereNested(fn): the predicate keeps the wheres of the Builder fn filled.
WhereNestedCall ==
    \E who \in Builders :
        \E nested \in {BWhere(NewBuilder, "role", "=", "admin")} :
            Did(who, "WhereNested", nested.wheres,
                BWhereNested(Target(who), [nested EXCEPT !.wheres = Len(heap) + 1]),
                Append(heap, nested.wheres))

CloneCall ==
    /\ clone = NoClone
    /\ Did("clone", "Clone", <<>>, Clone(orig), heap)

ResetCall == \E who \in Builders : Did(who, "Reset", <<>>, Reset(Target(who)), heap)

\* b.GetColumns()[i] = v
WriteColumn ==
    \E who \in Builders :
        \E i \in 1..Len(Target(who).columns) :
            Did(who, "WriteColumn", <<i>>,
                [Target(who) EXCEPT !.columns[i] = "written"], heap)

\* b.GetWheres()[i].Values[j] = v
WriteValue ==
    \E who \in Builders :
        \E i \in 1..Len(Target(who).wheres) :
            /\ Target(who).wheres[i].Type = "In"
            /\ \E j \in 1..Len(heap[Target(who).wheres[i].Values]) :
                Did(who, "WriteValue", <<i, j>>, Target(who),
                    [heap EXCEPT ![Target(who).wheres[i].Values][j] = "written"])

\* b.GetWheres()[i].Nested[k].Value = v
WriteNested ==
    \E who \in Builders :
        \E i \in 1..Len(Target(who).wheres) :
            /\ Target(who).wheres[i].Type = "Nested"
            /\ \E k \in 1..Len(heap[Target(who).wheres[i].Nested]) :
                Did(who, "WriteNested", <<i, k>>, Target(who),
                    [heap EXCEPT ![Target(who).wheres[i].Nested][k].Value = "written"])

BuilderNext ==
    \/ SetterCall \/ AppenderCall \/ WhereInCall \/ WhereNestedCall
    \/ CloneCall \/ ResetCall \/ WriteColumn \/ WriteValue \/ WriteNested

BuilderSpec == BuilderInit /\ [][BuilderNext]_vars

\* What the accessors of Builder bb show when the arrays are h: every list
\* with the contents of the array it refers to.
ShownClause(h, w) ==
    IF w.Type = "In" THEN [w EXCEPT !.Values = h[@]]
    ELSE IF w.Type = "Nested" THEN [w EXCEPT !.Nested = h[@]]
    ELSE w
Shown(h, bb) == [bb EXCEPT !.wheres = [i \in 1..Len(@) |-> ShownClause(h, @[i])]]

\* C12: once the clone exists, a call or a write made through one Builder
\* changes nothing of what the other Builder shows.
C12_CloneIndependent ==
    [][(clone # NoClone /\ last'.op # "Clone") =>
          /\ last'.who = "clone" => Shown(heap', orig') = Shown(heap, orig)
          /\ last'.who = "orig" => Shown(heap', clone'[1]) = Shown(heap, clone[1])]_vars

(***************************************************************************)
(* Transaction: the calls made on one handle                               *)
(*                                                                         *)
(* tx.closed and tx.mu are the fields of the handle; tx.driver lists the   *)
(* terminal calls the underlying *sql.Tx received; pc, op, ret and drv     *)
(* are, per goroutine, where it stands in its call, which call it is,      *)
(* what the call returns and whether it reached the driver; tx.log lists   *)
(* the Commit and Rollback calls that returned, in the order they          *)
(* returned.  For the statement calls, arg is the query or savepoint name  *)
(* of the call, late tells whether the handle was closed when the call     *)
(* was made, tx.sent lists the statements handed to the *sql.Tx and        *)
(* tx.stmts the statement calls that returned.  phase, outcome, last and   *)
(* result belong to DB.Transaction, which runs on goroutine 1; a handle    *)
(* obtained from BeginTx directly has the phase "manual".                  *)
(***************************************************************************)

Goroutines == {1, 2}

\* Commit and Rollback calls made on the handle in one run.
MaxTxCalls == 3

\* Statement calls made on the handle in one run.
MaxStatementCalls == 1

ErrTxAlreadyClosed == [kind |-> "ErrTxAlreadyClosed", input |-> ""]
ErrTxDone == [kind |-> "sql.ErrTxDone", input |-> ""]
DriverFailure == [kind |-> "driver error", input |-> ""]

WrapError(op, err) == IF err = NoError THEN NoError ELSE [kind |-> "fluentsql: " \o op, input |-> err.kind]

\* What a terminal call of the driver transaction can return.
DriverOutcomes == {NoError, ErrTxDone, DriverFailure}

\* The *Transaction BeginTx returns, not yet used.
NewTransaction(phase) ==
    [closed |-> FALSE, mu |-> 0, driver |-> <<>>,
     pc |-> [g \in Goroutines |-> "idle"],
     op |-> [g \in Goroutines |-> ""],
     ret |-> [g \in Goroutines |-> NoError],
     drv |-> [g \in Goroutines |-> FALSE],
     arg |-> [g \in Goroutines |-> ""],
     late |-> [g \in Goroutines |-> FALSE],
     started |-> 0, statements |-> 0, log |-> <<>>, sent |-> <<>>, stmts |-> <<>>,
     phase |-> phase, outcome |-> "", last |-> <<>>, result |-> NoError]

\* BeginTx
TxInit ==
    /\ tx = NewTransaction("manual")
    /\ b = Unused /\ calls = Unused /\ res = Unused /\ BuilderUnused /\ val = Unused

TxStep(g, next) ==
    /\ tx' = next
    /\ UNCHANGED <<grammarVars, builderVars, val>>

\* Goroutine g calls t.Commit() or t.Rollback().
TxCall(g) ==
    /\ tx.pc[g] = "idle"
    /\ tx.phase = "manual"
    /\ tx.started < MaxTxCalls
    /\ \E op \in {"Commit", "Rollback"} :
        TxStep(g, [tx EXCEPT !.pc[g] = "lock", !.op[g] = op, !.drv[g] = FALSE,
                             !.started = @ + 1])

\* t.mu.Lock()
TxLock(g) ==
    /\ tx.pc[g] = "lock"
    /\ tx.mu = 0
    /\ TxStep(g, [tx EXCEPT !.mu = g, !.pc[g] = "body"])

\* Commit that leaves the handle open.
CommitKeepsOpen(g) ==
    /\ tx.pc[g] = "body" /\ tx.op[g] = "Commit"
    /\ IF tx.closed
        THEN TxStep(g, [tx EXCEPT !.ret[g] = ErrTxAlreadyClosed, !.pc[g] = "unlock"])
        ELSE \E e \in DriverOutcomes :
                TxStep(g, [tx EXCEPT !.driver = Append(@, "Commit"),
                                     !.drv[g] = TRUE,
                                     !.ret[g] = WrapError("commit transaction", e),
                                     !.pc[g] = "unlock"])

\* The body of Commit, run while g holds the lock.
Commit(g) ==
    /\ tx.pc[g] = "body" /\ tx.op[g] = "Commit"
    /\ IF tx.closed
        THEN TxStep(g, [tx EXCEPT !.ret[g] = ErrTxAlreadyClosed, !.pc[g] = "unlock"])
        ELSE \E e \in DriverOutcomes :
                TxStep(g, [tx EXCEPT !.closed = TRUE,
                                     !.driver = Append(@, "Commit"),
                                     !.drv[g] = TRUE,
                                     !.ret[g] = WrapError("commit transaction", e),
                                     !.pc[g] = "unlock"])

\* The body of Rollback, run while g holds the lock.
Rollback(g) ==
    /\ tx.pc[g] = "body" /\ tx.op[g] = "Rollback"
    /\ IF tx.closed
        THEN TxStep(g, [tx EXCEPT !.ret[g] = NoError, !.pc[g] = "unlock"])
        ELSE \E e \in DriverOutcomes :
                TxStep(g, [tx EXCEPT !.closed = TRUE,
                                     !.driver = Append(@, "Rollback"),
                                     !.drv[g] = TRUE,
                                     !.ret[g] = IF e = ErrTxDone THEN NoError
                                                ELSE WrapError("rollback transaction", e),
                                     !.pc[g] = "unlock"])

\* The deferred t.mu.Unlock(), and the return to the caller.
TxUnlock(g) ==
    /\ tx.pc[g] = "unlock"
    /\ TxStep(g, [tx EXCEPT !.mu = 0, !.pc[g] = "idle",
                            !.log = Append(@, [g |-> g, op |-> tx.op[g], ret |-> tx.ret[g],
                                               drv |-> tx.drv[g]])])

StatementOps ==
    {"ExecContext", "QueryContext", "QueryRowContext",
     "Savepoint", "RollbackTo", "ReleaseSavepoint"}
SavepointOps == {"Savepoint", "RollbackTo", "ReleaseSavepoint"}

\* The statement a call hands to the *sql.Tx.
StatementOf(op, arg) ==
    CASE op = "Savepoint" -> "SAVEPOINT " \o arg
      [] op = "RollbackTo" -> "ROLLBACK TO SAVEPOINT " \o arg
      [] op = "ReleaseSavepoint" -> "RELEASE SAVEPOINT " \o arg
      [] OTHER -> arg

\* The operation name the savepoint calls wrap a driver error with.
WrapName(op) ==
    CASE op = "Savepoint" -> "create savepoint"
      [] op = "RollbackTo" -> "rollback to savepoint"
      [] op = "ReleaseSavepoint" -> "release savepoint"

NewValidationError(typ, value, reason) == [kind |-> "ValidationError: " \o reason, input |-> value]

\* Goroutine g calls one of the statement methods of the handle.
TxStatementCall(g) ==
    /\ tx.pc[g] = "idle"
    /\ tx.phase = "manual"
    /\ tx.statements < MaxStatementCalls
    /\ \E op \in StatementOps :
        \E arg \in (IF op \in SavepointOps THEN {"", "sp1"} ELSE {"UPDATE t SET a = 1"}) :
            TxStep(g, [tx EXCEPT !.pc[g] = "lock", !.op[g] = op, !.arg[g] = arg,
                                 !.drv[g] = FALSE, !.late[g] = tx.closed,
                                 !.statements = @ + 1])

\* The head of a statement method, run while g holds the lock: the closed
\* check and t.mu.Unlock(); for the savepoint methods the name check that
\* follows, which reads no field of the handle.
TxCheckClosed(g) ==
    /\ tx.pc[g] = "body" /\ tx.op[g] \in StatementOps
    /\ IF tx.closed
        THEN IF tx.op[g] = "QueryRowContext"
                THEN TxStep(g, [tx EXCEPT !.mu = 0, !.arg[g] = "SELECT 1 WHERE 1=0",
                                          !.pc[g] = "send"])
                ELSE TxStep(g, [tx EXCEPT !.mu = 0, !.ret[g] = ErrTxAlreadyClosed,
                                          !.pc[g] = "return"])
        ELSE IF tx.op[g] \in SavepointOps /\ tx.arg[g] = ""
                THEN TxStep(g, [tx EXCEPT !.mu = 0,
                                          !.ret[g] = NewValidationError("identifier", "",
                                                        "savepoint name cannot be empty"),
                                          !.pc[g] = "return"])
                ELSE TxStep(g, [tx EXCEPT !.mu = 0, !.pc[g] = "send"])

\* What the *sql.Tx answers to a statement: ErrTxDone once it has been
\* committed or rolled back.
StatementOutcomes == IF tx.driver # <<>> THEN {ErrTxDone} ELSE {NoError, DriverFailure}

\* The call of t.tx.ExecContext / QueryContext / QueryRowContext / Exec,
\* made after the lock was released.
TxSend(g) ==
    /\ tx.pc[g] = "send"
    /\ \E e \in StatementOutcomes :
        TxStep(g, [tx EXCEPT !.sent = Append(@, [g |-> g, op |-> tx.op[g],
                                                 stmt |-> StatementOf(tx.op[g], tx.arg[g]),
                                                 closed |-> tx.closed,
                                                 late |-> tx.late[g]]),
                             !.drv[g] = TRUE,
                             !.ret[g] = IF tx.op[g] \in SavepointOps
                                            THEN WrapError(WrapName(tx.op[g]), e) ELSE e,
                             !.pc[g] = "return"])

\* A statement method returns to its caller.
TxReturn(g) ==
    /\ tx.pc[g] = "return"
    /\ TxStep(g, [tx EXCEPT !.pc[g] = "idle",
                            !.stmts = Append(@, [g |-> g, op |-> tx.op[g], ret |-> tx.ret[g],
                                                 drv |-> tx.drv[g], late |-> tx.late[g]])])

TxNext ==
    \E g \in Goroutines :
        \/ TxCall(g) \/ TxLock(g) \/ Commit(g) \/ Rollback(g) \/ TxUnlock(g)

TxSpec == TxInit /\ [][TxNext]_vars

\* C13: the first call closes the handle for good; a later Commit returns
\* ErrTxAlreadyClosed, a later Rollback returns nil, neither reaches the
\* driver, and the driver transaction gets at most one terminal call.
C13_TerminalOnce ==
    /\ [](/\ Len(tx.log) > 0 => tx.closed
          /\ \A i \in 2..Len(tx.log) :
                /\ ~tx.log[i].drv
                /\ tx.log[i].op = "Commit" => tx.log[i].ret = ErrTxAlreadyClosed
                /\ tx.log[i].op = "Rollback" => tx.log[i].ret = NoError
          /\ Len(tx.driver) <= 1)
    /\ [][tx.closed => tx'.closed]_vars

\* Both goroutines called after a first call whose driver call failed: a
\* Commit and a Rollback returned on the closed handle.
C13_Witness ==
    /\ Len(tx.log) = 3
    /\ tx.log[1].ret \notin {NoError, ErrTxAlreadyClosed}
    /\ {tx.log[2].op, tx.log[3].op} = {"Commit", "Rollback"}
    /\ tx.log[2].g # tx.log[3].g

(***************************************************************************)
(* internal/validation called on its own                                   *)
(*                                                                         *)
(* val is the call made: the function, its input (for a table reference    *)
(* also the parts the text was put together from) and what it returned.    *)
(***************************************************************************)

\* Length of the identifiers enumerated character by character.
MaxIdLen == 3

\* strings.Repeat
RECURSIVE Repeat(_, _)
Repeat(s, n) ==
    IF n = 0 THEN ""
    ELSE IF n % 2 = 1 THEN s \o Repeat(s, n - 1)
    ELSE With(Repeat(s, n \div 2), LAMBDA half : half \o half)

IdAlphabet == {"a", "Z", "7", "_", ".", " ", ";", "'"}

RECURSIVE StringsUpTo(_)
StringsUpTo(n) ==
    IF n = 0 THEN {""}
    ELSE StringsUpTo(n - 1) \cup {s \o c : s \in StringsUpTo(n - 1), c \in IdAlphabet}

\* The cases of TestValidateIdentifier that need more than MaxIdLen
\* characters or a character outside IdAlphabet, and the lengths around
\* the limit.
IdCases ==
    {"users", "user_name", "user123", "_private", "users.id", "UserName",
     "123users", "user name", "user-name", "user@name", "users\"", "users" \o Backtick,
     "users()", "users; DROP TABLE users;--", "a.b.c", "users UNION SELECT",
     "users--", "users OR 1=1", "users\n", "users\r", "users\t",
     Repeat("a", MaxIdentifierLength - 1), Repeat("a", MaxIdentifierLength),
     Repeat("a", MaxIdentifierLength + 1), Repeat("a", MaxIdentifierLength + 2),
     Repeat("a", MaxIdentifierLength - 2) \o ".b", Repeat("a", MaxIdentifierLength - 1) \o ".b",
     Repeat("a", MaxIdentifierLength) \o ";"}

NoCall == [fn |-> "none", input |-> "", parts |-> <<>>, out |-> <<>>]

ValidationInit ==
    /\ val = NoCall
    /\ b = Unused /\ calls = Unused /\ res = Unused /\ BuilderUnused /\ tx = Unused

ValidateIdentifierCall ==
    /\ val.fn = "none"
    /\ \E id \in StringsUpTo(MaxIdLen) \cup IdCases :
        val' = [fn |-> "ValidateIdentifier", input |-> id, parts |-> <<>>,
                out |-> ValidateIdentifier(id)]
    /\ UNCHANGED <<grammarVars, builderVars, tx>>

\* The text is name, separator, alias and what follows the alias.
ValidateTableWithAliasCall ==
    /\ val.fn = "none"
    /\ \E name \in {"users", "db.users", "_t1", "as", "1x", "x;y", "a.b.c", "",
                    Repeat("a", MaxIdentifierLength), Repeat("a", MaxIdentifierLength + 1)},
          sep \in {"", " ", "  ", "\t", " as ", " AS ", " aS ", " As  ", "\tas\n"},
          alias \in {"", "u", "a.b", "as", "user_alias", "123", "u;",
                     Repeat("u", MaxIdentifierLength), Repeat("u", MaxIdentifierLength + 1)},
          more \in {"", " as v", " v"} :
        /\ sep = "" => alias = ""
        /\ alias \in {"", "as"} => more = ""
        /\ val' = [fn |-> "ValidateTableWithAlias",
                   input |-> name \o sep \o alias \o more,
                   parts |-> <<name, sep, alias, more>>,
                   out |-> ValidateTableWithAlias(name \o sep \o alias \o more)]
    /\ UNCHANGED <<grammarVars, builderVars, tx>>

\* g.WrapTable(t) and g.Wrap(t) on the same text.
WrapCall ==
    /\ val.fn = "none"
    /\ \E t \in StringsUpTo(MaxIdLen) \cup IdCases :
        val' = [fn |-> "Wrap", input |-> t, parts |-> <<>>,
                out |-> [table |-> WrapTable(t), column |-> Wrap(t)]]
    /\ UNCHANGED <<grammarVars, builderVars, tx>>

ValidationNext == ValidateIdentifierCall \/ ValidateTableWithAliasCall \/ WrapCall

ValidationSpec == ValidationInit /\ [][ValidationNext]_vars

\* The characters at which a segment of the dot-separated text s begins.
SegmentStarts(s) == {1} \cup {i + 1 : i \in {k \in 1..Len(s) : Char(s, k) = "."}}

\* s is one or two dot-separated segments, each a letter or underscore
\* followed by letters, digits and underscores.
WellFormedId(s) ==
    /\ Cardinality({k \in 1..Len(s) : Char(s, k) = "."}) <= 1
    /\ \A i \in SegmentStarts(s) :
        i <= Len(s) /\ (Char(s, i) = "_" \/ Char(s, i) \in LowerSet \cup UpperSet)
    /\ \A i \in 1..Len(s) :
        Char(s, i) \in LowerSet \cup UpperSet \cup DigitSet \cup {"_", "."}

\* C15: ValidateIdentifier accepts exactly the non-empty strings of at most
\* 128 characters that are one or two well-formed segments, and rejects
\* every other string with an identifier error carrying the input.
C15_IdentifierShape ==
    val.fn = "ValidateIdentifier" =>
        IF val.input # "" /\ Len(val.input) <= 128 /\ WellFormedId(val.input)
        THEN val.out = NoError
        ELSE val.out.kind = "IdentifierError" /\ val.out.input = val.input

\* A 129-character word was rejected, with itself in the error.
C15_Witness ==
    /\ val.fn = "ValidateIdentifier"
    /\ Len(val.input) = 129
    /\ WellFormedId(val.input)
    /\ val.out.kind = "IdentifierError" /\ val.out.input = val.input

\* A valid identifier, and one without a dot.
ValidId(s) == s # "" /\ Len(s) <= 128 /\ WellFormedId(s)
ValidWord(s) == ValidId(s) /\ ~Contains(s, ".")

\* The call was made on a text with a separator after the name.
AliasCall == val.fn = "ValidateTableWithAlias" /\ val.parts[2] # ""

\* C14 as stated: with any valid name and valid alias the text is accepted
\* and (name, alias) returned; with an invalid part or a second alias token
\* it is rejected.
C14_AsStated ==
    AliasCall =>
        IF ValidId(val.parts[1]) /\ ValidId(val.parts[3]) /\ val.parts[4] = ""
        THEN val.out = [name |-> val.parts[1], alias |-> val.parts[3], err |-> NoError]
        ELSE val.out.err # NoError

\* C14: 'name alias' and 'name AS alias' are accepted, returning
\* (name, alias), exactly when name and alias are valid identifiers without
\* a dot and nothing follows the alias; every other such text is rejected.
C14_AliasParsing ==
    AliasCall =>
        IF ValidWord(val.parts[1]) /\ ValidWord(val.parts[3]) /\ val.parts[4] = ""
        THEN val.out = [name |-> val.parts[1], alias |-> val.parts[3], err |-> NoError]
        ELSE val.out.err # NoError

\* 'users AS user_alias' was accepted as (users, user_alias).
C14_Witness ==
    /\ AliasCall
    /\ val.parts = <<"users", " AS ", "user_alias", "">>
    /\ val.out = [name |-> "users", alias |-> "user_alias", err |-> NoError]

(***************************************************************************)
(* C16                                                                     *)
(***************************************************************************)

\* A valid identifier between quotes, each of its segments on its own.
Quoted(c) == Backtick \o Join(Split(c, "."), Backtick \o "." \o Backtick) \o Backtick

\* The columns an upsert updates.
UpdateColumns ==
    IF res.updateColumns = <<>> THEN Ascending(DOMAIN res.data) ELSE res.updateColumns

\* What CompileInsert returns for the data of the call.
InsertOfCall == CompileInsert(b, res.data, Ascending(DOMAIN res.data))

NothingReturned == res.err # NoError /\ res.sql = "" /\ res.args = <<>>

\* C16: CompileUpsert returns CompileInsert's text, ' ON DUPLICATE KEY
\* UPDATE ' and one quoted 'c = VALUES(c)' item per update column in the
\* order given (the sorted data keys when none is given), with
\* CompileInsert's arguments; when CompileInsert fails or an update column
\* is not a valid identifier it returns an error, no text and no arguments.
C16_UpsertText ==
    res.op = "Upsert" =>
        IF InsertOfCall.err # NoError THEN NothingReturned
        ELSE IF \E i \in 1..Len(UpdateColumns) : ~ValidId(UpdateColumns[i])
            THEN NothingReturned
        ELSE /\ res.err = NoError
             /\ res.args = InsertOfCall.args
             /\ res.sql = InsertOfCall.sql \o " ON DUPLICATE KEY UPDATE "
                    \o Join([i \in 1..Len(UpdateColumns) |->
                                Quoted(UpdateColumns[i]) \o " = VALUES("
                                    \o Quoted(UpdateColumns[i]) \o ")"], ", ")

(***************************************************************************)
(* C17                                                                     *)
(***************************************************************************)

\* The Builder a call was made on, as the call left it.
TargetAfter(who) == IF who = "orig" THEN orig' ELSE clone'[1]

IsPrefix(s, t) == Len(s) <= Len(t) /\ SubSeq(t, 1, Len(s)) = s

FluentOps ==
    {"Table", "Select", "Distinct", "Limit", "Offset",
     "Where", "Join", "OrderBy", "GroupBy", "Having", "WhereIn", "WhereNested"}

\* C17: after a fluent call the table, the column list, the distinct flag,
\* the limit and the offset are what the most recent call for them gave,
\* and the predicates, joins, orders and group-by columns are the ones
\* before the call with at most new ones appended.
C17_OverwriteAndAppend ==
    [][last'.op \in FluentOps =>
          /\ last'.op = "Table" => TargetAfter(last'.who).table = last'.args
          /\ last'.op = "Select" => TargetAfter(last'.who).columns = last'.args
          /\ last'.op = "Distinct" => TargetAfter(last'.who).distinct
          /\ last'.op = "Limit" => TargetAfter(last'.who).limit = <<last'.args>>
          /\ last'.op = "Offset" => TargetAfter(last'.who).offset = <<last'.args>>
          /\ IsPrefix(Target(last'.who).wheres, TargetAfter(last'.who).wheres)
          /\ IsPrefix(Target(last'.who).joins, TargetAfter(last'.who).joins)
          /\ IsPrefix(Target(last'.who).orders, TargetAfter(last'.who).orders)
          /\ IsPrefix(Target(last'.who).groupBy, TargetAfter(last'.who).groupBy)
          /\ IsPrefix(Target(last'.who).having, TargetAfter(last'.who).having)]_vars

(***************************************************************************)
(* C18                                                                     *)
(***************************************************************************)

\* The predicates of the descriptor that no compile call accepts: a column
\* or an operator that is not valid, an IN list without values.
Unacceptable(w) ==
    \/ w.Type = "Basic" /\ Invalid(w.Column) /\ w.Column # "*"
    \/ w.Type = "Basic" /\ BadOperator(w.Operator)
    \/ w.Type \in {"In", "NotIn"} /\ w.Values = <<>>

\* C18: whatever the fluent calls were given, Err() is nil, and a predicate
\* that cannot be compiled is in the descriptor until a compile call that
\* reads the predicates reports it.
C18_ValidationDeferred ==
    /\ b.err = NoError
    /\ (UsesWheres(res.op) /\ \E i \in 1..Len(b.wheres) : Unacceptable(b.wheres[i]))
            => res.err # NoError

\* Where was called with an operator outside the allow-set and WhereIn
\* with no values; Err() is nil and the SELECT compiled next failed.
C18_Witness ==
    /\ calls > 0
    /\ \E i \in 1..Len(b.wheres) : b.wheres[i].Type = "Basic" /\ BadOperator(b.wheres[i].Operator)
    /\ b.err = NoError
    /\ res.op = "Select"
    /\ res.err.kind = "OperatorError"

(***************************************************************************)
(* C19                                                                     *)
(***************************************************************************)

\* A column as it stands in the text: quoted, or a bare '*'.
ColumnText(c) == IF c = "*" THEN "*" ELSE Quoted(c)

\* NormalizeOperator of an accepted operator.
Canonical(op) == ToUpper(TrimSpace(op))

BasicPredicates == {w \in UsedPredicates : w.Type = "Basic"}
OnJoins == {j \in UsedJoins : j.Type # JoinCross}

\* C19 as stated: a Basic predicate and a non-Cross join stand in the text
\* with the canonical form of their operator.
C19_AsStated ==
    Succeeded =>
        /\ \A w \in BasicPredicates :
                Contains(res.sql, ColumnText(w.Column) \o " " \o Canonical(w.Operator) \o " ?")
        /\ \A j \in OnJoins :
                Contains(res.sql, ColumnText(j.First) \o " " \o Canonical(j.Operator)
                                    \o " " \o ColumnText(j.Second))

\* C19: the operator of a Basic predicate stands in the text upper-cased
\* but with the whitespace it was given, the operator of a non-Cross join
\* exactly as given, each between single spaces; what stands there is an
\* accepted spelling, its canonical form being in the allow-set.
C19_OperatorAsValidated ==
    Succeeded =>
        /\ \A w \in BasicPredicates :
                /\ Contains(res.sql, ColumnText(w.Column) \o " " \o ToUpper(w.Operator) \o " ?")
                /\ Canonical(w.Operator) \in AllowSet
        /\ \A j \in OnJoins :
                /\ Contains(res.sql, ColumnText(j.First) \o " " \o j.Operator
                                        \o " " \o ColumnText(j.Second))
                /\ Canonical(j.Operator) \in AllowSet

\* A padded lower-case operator of a predicate and a lower-case operator of
\* a join were compiled.
C19_Witness ==
    /\ Succeeded
    /\ \/ \E w \in BasicPredicates : w.Operator = " like " /\ Contains(res.sql, "~name~  LIKE  ?")
       \/ \E j \in OnJoins : j.Operator = "like"
                /\ Contains(res.sql, "~users~.~name~ like ~profiles~.~name~")

(***************************************************************************)
(* C20                                                                     *)
(***************************************************************************)

\* The error an element of a statement is rejected with, NoError when it is
\* accepted.  An element is <<kind, text>>.
ElementError(e) ==
    CASE e[1] = "table" -> WrapTable(e[2]).err
      [] e[1] = "column" -> IF e[2] = "*" \/ ValidId(e[2]) THEN NoError ELSE IdentifierError(e[2])
      [] e[1] = "operator" -> IF BadOperator(e[2]) THEN OperatorError(e[2]) ELSE NoError

\* The error of the first element of the list that is rejected.
FirstError(elements) ==
    IF \A i \in 1..Len(elements) : ElementError(elements[i]) = NoError THEN NoError
    ELSE ElementError(elements[CHOOSE i \in 1..Len(elements) :
                                /\ ElementError(elements[i]) # NoError
                                /\ \A k \in 1..(i - 1) : ElementError(elements[k]) = NoError])

\* The elements of a join in the order they stand in 'KIND JOIN table ON
\* left operator right'.
JoinElements(j) ==
    IF j.Type = JoinCross THEN << <<"table", j.Table>> >>
    ELSE << <<"table", j.Table>>, <<"column", j.First>>,
            <<"operator", j.Operator>>, <<"column", j.Second>> >>

\* The elements of 'SELECT COUNT(column) FROM table'.
CountElements ==
    (IF res.column = "" THEN <<>> ELSE << <<"column", res.column>> >>)
        \o << <<"table", b.table>> >>

\* The first join of the descriptor with a rejected element, 0 without one.
FirstBadJoin ==
    IF \A i \in 1..Len(b.joins) : FirstError(JoinElements(b.joins[i])) = NoError THEN 0
    ELSE CHOOSE i \in 1..Len(b.joins) :
            /\ FirstError(JoinElements(b.joins[i])) # NoError
            /\ \A k \in 1..(i - 1) : FirstError(JoinElements(b.joins[k])) = NoError

\* C20: the error returned is the one of the first rejected element in
\* output order: for COUNT the column before the table, for a SELECT whose
\* columns and table are accepted the first rejected element of the first
\* join that has one, taken as table, left column, operator, right column.
C20_OutputOrder ==
    /\ (res.op = "Count" /\ b.table # "" /\ FirstError(CountElements) # NoError)
            => res.err = FirstError(CountElements)
    /\ (/\ res.op = "Select" /\ b.table # ""
        /\ selectColumns(b.columns).err = NoError
        /\ WrapTable(b.table).err = NoError
        /\ FirstBadJoin # 0)
            => res.err = FirstError(JoinElements(b.joins[FirstBadJoin]))

(***************************************************************************)
(* C21                                                                     *)
(***************************************************************************)

EmptyGroup(w) == w.Type = "Nested" /\ Len(w.Nested) = 0

\* The list without its Nested predicates that have no children, at every
\* depth.
RECURSIVE WithoutEmptyGroups(_)
WithoutEmptyGroups(list) ==
    IF list = <<>> THEN <<>>
    ELSE IF EmptyGroup(list[1]) THEN WithoutEmptyGroups(Tail(list))
    ELSE <<[list[1] EXCEPT !.Nested = WithoutEmptyGroups(@)]>>
            \o WithoutEmptyGroups(Tail(list))

HasEmptyGroup == \E w \in UsedPredicates : EmptyGroup(w)

\* C21: a Nested predicate with no children is a no-op group: the call
\* returns the SQL and the arguments it returns for the descriptor without
\* such predicates, its text does not end in WHERE or in a connector, and
\* no connector is followed by another one.
C21_EmptyGroupNoOp ==
    Called /\ HasEmptyGroup =>
        /\ \A iter, iter2 \in Orderings(CallKeys(res)) :
            LET r == Run([b EXCEPT !.wheres = WithoutEmptyGroups(@),
                                   !.having = WithoutEmptyGroups(@)],
                         res, iter, iter2)
            IN  r.sql = res.sql /\ r.args = res.args /\ r.err = res.err
        /\ \A tail \in {" WHERE ", " AND ", " OR "} : ~IsSuffix(tail, res.sql)

(***************************************************************************)
(* C22                                                                     *)
(***************************************************************************)

Directions == {OrderAsc, OrderDesc}
JoinKinds == {JoinInner, JoinLeft, JoinRight, JoinCross}

\* The ordering descriptors with a column (no raw text).
ColumnOrders == {b.orders[i] : i \in {k \in 1..Len(b.orders) : b.orders[k].Raw = ""}}

\* C22: CompileSelect fails for a descriptor that holds a non-raw ordering
\* whose direction is neither ASC nor DESC or a join whose kind is none of
\* INNER, LEFT, RIGHT and CROSS; in the SQL it returns, every non-raw
\* ORDER BY column is followed by ASC or DESC.
C22_EnumKeywords ==
    res.op = "Select" =>
        /\ (\E o \in ColumnOrders : o.Direction \notin Directions) => res.err # NoError
        /\ (\E j \in UsedJoins : j.Type \notin JoinKinds) => res.err # NoError
        /\ Succeeded =>
            \A o \in ColumnOrders :
                \E d \in Directions :
                    \/ Contains(res.sql, Wrap(o.Column).s \o " " \o d \o ",")
                    \/ Contains(res.sql, Wrap(o.Column).s \o " " \o d \o " LIMIT")
                    \/ Contains(res.sql, Wrap(o.Column).s \o " " \o d \o " OFFSET")
                    \/ IsSuffix(Wrap(o.Column).s \o " " \o d, res.sql)

(***************************************************************************)
(* Transaction: statement calls next to Commit and Rollback                *)
(***************************************************************************)

StatementNext ==
    \/ TxNext
    \/ \E g \in Goroutines :
        \/ TxStatementCall(g) \/ TxCheckClosed(g) \/ TxSend(g) \/ TxReturn(g)

StatementSpec == TxInit /\ [][StatementNext]_vars

(***************************************************************************)
(* C23                                                                     *)
(***************************************************************************)

\* The methods that return an error value.
ErrorReturning == StatementOps \ {"QueryRowContext"}

\* C23: a statement call made on a closed handle returns
\* ErrTxAlreadyClosed (QueryRowContext has no error to return), and no
\* call made on a closed handle hands a statement to the *sql.Tx.
C23_ClosedHandleSilent ==
    /\ \A i \in 1..Len(tx.stmts) :
        tx.stmts[i].late /\ tx.stmts[i].op \in ErrorReturning
            => tx.stmts[i].ret = ErrTxAlreadyClosed /\ ~tx.stmts[i].drv
    /\ \A i \in 1..Len(tx.sent) : ~tx.sent[i].late

(***************************************************************************)
(* C25                                                                     *)
(***************************************************************************)

\* C25: no statement of ExecContext, QueryContext, Savepoint, RollbackTo or
\* ReleaseSavepoint is handed to the *sql.Tx while the handle is closed.
C25_NoStatementAfterClose ==
    \A i \in 1..Len(tx.sent) :
        tx.sent[i].op \in ErrorReturning => ~tx.sent[i].closed

(***************************************************************************)
(* DB.Transaction(ctx, fn)                                                 *)
(*                                                                         *)
(* fn receives the handle and may call any of its methods, on goroutine 1  *)
(* or on a goroutine it starts; DB.Transaction runs on goroutine 1.        *)
(***************************************************************************)

\* Calls fn makes on the handle in one run.
MaxFnCalls == 2

FnError == [kind |-> "error returned by fn", input |-> ""]
Panic == [kind |-> "panic", input |-> ""]

TransactionInit ==
    /\ tx = NewTransaction("begin")
    /\ b = Unused /\ calls = Unused /\ res = Unused /\ BuilderUnused /\ val = Unused

\* tx, err := d.BeginTx(ctx, nil); on an error DB.Transaction returns it.
BeginTx ==
    /\ tx.phase = "begin"
    /\ \E e \in {NoError, DriverFailure} :
        TxStep(1, IF e = NoError
                    THEN [tx EXCEPT !.phase = "fn"]
                    ELSE [tx EXCEPT !.phase = "returned",
                                    !.result = WrapError("begin transaction", e)])

\* fn, or a goroutine it started, calls a method of the handle.
FnCall(g) ==
    /\ tx.phase = "fn"
    /\ tx.pc[g] = "idle"
    /\ tx.started + tx.statements < MaxFnCalls
    /\ \/ \E op \in {"Commit", "Rollback"} :
            TxStep(g, [tx EXCEPT !.pc[g] = "lock", !.op[g] = op, !.drv[g] = FALSE,
                                 !.started = @ + 1])
       \/ \E op \in StatementOps :
            TxStep(g, [tx EXCEPT !.pc[g] = "lock", !.op[g] = op,
                                 !.arg[g] = "sp1", !.drv[g] = FALSE,
                                 !.late[g] = tx.closed, !.statements = @ + 1])

\* DB.Transaction that commits whatever fn returns.
FnReturnsAlwaysCommit ==
    /\ tx.phase = "fn"
    /\ tx.pc[1] = "idle"
    /\ \E out \in {"nil", "error", "panic"} :
        TxStep(1, [tx EXCEPT !.phase = "ending", !.outcome = out,
                             !.op[1] = "Commit",
                             !.pc[1] = "lock", !.drv[1] = FALSE])

\* fn returns nil, returns an error or panics, and DB.Transaction calls
\* tx.Commit() or tx.Rollback().
FnReturns ==
    /\ tx.phase = "fn"
    /\ tx.pc[1] = "idle"
    /\ \E out \in {"nil", "error", "panic"} :
        TxStep(1, [tx EXCEPT !.phase = "ending", !.outcome = out,
                             !.op[1] = IF out = "nil" THEN "Commit" ELSE "Rollback",
                             !.pc[1] = "lock", !.drv[1] = FALSE])

\* The Commit or Rollback call came back: DB.Transaction returns, or lets
\* the panic go on.
TransactionReturns ==
    /\ tx.phase = "ending"
    /\ tx.pc[1] = "idle"
    /\ TxStep(1, [tx EXCEPT
            !.phase = "returned",
            !.last = <<[op |-> tx.op[1], ret |-> tx.ret[1], drv |-> tx.drv[1]]>>,
            !.result = CASE tx.outcome = "nil" -> tx.ret[1]
                         [] tx.outcome = "error" ->
                                IF tx.ret[1] # NoError
                                    THEN WrapError("rollback after error", tx.ret[1])
                                    ELSE FnError
                         [] tx.outcome = "panic" -> Panic])

TransactionNext ==
    \/ BeginTx \/ FnReturns \/ TransactionReturns
    \/ \E g \in Goroutines :
        \/ FnCall(g) \/ TxLock(g) \/ Commit(g) \/ Rollback(g) \/ TxUnlock(g)
        \/ TxCheckClosed(g) \/ TxSend(g) \/ TxReturn(g)

TransactionSpec == TransactionInit /\ [][TransactionNext]_vars

(***************************************************************************)
(* C24                                                                     *)
(***************************************************************************)

\* DB.Transaction returned after fn ran.
Ended == tx.phase = "returned" /\ tx.last # <<>>

\* C24 as stated: when DB.Transaction returns the handle is closed and the
\* driver transaction got one terminal call: Commit when fn returned nil,
\* with Commit's result returned, Rollback when fn returned an error, with
\* that error or the wrapped rollback error returned, Rollback when fn
\* panicked, with the panic going on.
C24_AsStated ==
    Ended =>
        /\ tx.closed
        /\ tx.outcome = "nil" =>
                tx.driver = <<"Commit">> /\ tx.result = tx.last[1].ret
        /\ tx.outcome = "error" =>
                /\ tx.driver = <<"Rollback">>
                /\ tx.result = IF tx.last[1].ret = NoError THEN FnError
                               ELSE WrapError("rollback after error", tx.last[1].ret)
        /\ tx.outcome = "panic" =>
                tx.driver = <<"Rollback">> /\ tx.result = Panic

\* C24 amended: when DB.Transaction returns the handle is closed and the
\* driver transaction got exactly one terminal call.  DB.Transaction calls
\* Commit when fn returned nil and returns its result, and calls Rollback
\* otherwise; that call is the driver's terminal call unless the handle was
\* closed before it, through a Commit or Rollback made inside fn: then the
\* driver call is the earlier one, and a nil outcome of fn returns
\* ErrTxAlreadyClosed.
C24_EndsExactlyOnce ==
    Ended =>
        /\ tx.closed
        /\ Len(tx.driver) = 1
        /\ tx.last[1].drv => tx.driver = <<tx.last[1].op>>
        /\ tx.outcome = "nil" =>
                /\ tx.last[1].op = "Commit"
                /\ tx.result = tx.last[1].ret
                /\ ~tx.last[1].drv => tx.result = ErrTxAlreadyClosed
        /\ tx.outcome = "error" =>
                /\ tx.last[1].op = "Rollback"
                /\ tx.result = IF tx.last[1].ret = NoError THEN FnError
                               ELSE WrapError("rollback after error", tx.last[1].ret)
                /\ ~tx.last[1].drv => tx.result = FnError
        /\ tx.outcome = "panic" =>
                /\ tx.last[1].op = "Rollback"
                /\ tx.result = Panic

\* fn rolled the transaction back itself and returned nil: the Commit of
\* DB.Transaction found the handle closed.
C24_Witness ==
    /\ Ended
    /\ tx.outcome = "nil"
    /\ tx.driver = <<"Rollback">>
    /\ tx.result = ErrTxAlreadyClosed

(***************************************************************************)
(* Grammar: compile calls of two goroutines on one descriptor              *)
(*                                                                         *)
(* The descriptor is orig with the arrays of heap, as in the Builder       *)
(* specification; the lists of a Raw, In or Nested predicate are           *)
(* addresses.  last holds the Grammar instance and the number of compile   *)
(* calls made; res[g] is the call goroutine g is in or has returned from:  *)
(* args is the address of the argument list it was given (0 for nil), ret  *)
(* the contents of that list when the call returned.  clone[1] is what     *)
(* the descriptor's accessors showed before the first call.                *)
(***************************************************************************)

\* Compile calls made in one run.
MaxCompileCalls == 2

\* MySQL(): the fields of the Grammar instance.
MySQL == [name |-> "mysql", dateFormat |-> "2006-01-02 15:04:05"]

\* What the accessors of the descriptor return: every list with the
\* contents of its array.
DerefClause(h, w) ==
    CASE w.Type \in {"In", "NotIn"} -> [w EXCEPT !.Values = h[@]]
      [] w.Type = "Raw" -> [w EXCEPT !.Bindings = h[@]]
      [] w.Type = "Nested" -> [w EXCEPT !.Nested = h[@]]
      [] OTHER -> w
Deref(h, bb) ==
    [bb EXCEPT !.wheres = [i \in 1..Len(@) |-> DerefClause(h, @[i])],
               !.having = [i \in 1..Len(@) |-> DerefClause(h, @[i])]]

\* The arrays the descriptor refers to.
ClauseArrays(list) ==
    {list[i].Values : i \in {k \in 1..Len(list) : list[k].Type \in {"In", "NotIn"}}}
        \cup {list[i].Bindings : i \in {k \in 1..Len(list) : list[k].Type = "Raw"}}
        \cup {list[i].Nested : i \in {k \in 1..Len(list) : list[k].Type = "Nested"}}
DescriptorArrays(bb) == ClauseArrays(bb.wheres) \cup ClauseArrays(bb.having)

\* Descriptors with a Raw, an In and a Nested predicate; the arrays are
\* those of CompileHeap.
CompileHeap ==
    << <<"1", "2">>, <<"x">>, BOrWhere(BWhere(NewBuilder, "role", "=", "admin"),
                                        "role", "=", "moderator").wheres, <<"5">> >>
CompileFixtures ==
    {BWhereRaw(BTable(NewBuilder, "users"), "a = ?", 2),
     BWhereIn(BTable(NewBuilder, "users"), "id", 1),
     BHavingRaw(BGroupBy(
        BWhereNested(BWhereRaw(BWhereIn(BTable(NewBuilder, "users"), "id", 1), "a = ?", 2),
                     [NewBuilder EXCEPT !.wheres = 3]),
        <<"role">>), "COUNT(*) > ?", 4),
     BWhere(BTable(NewBuilder, "users"), BadId, "=", "1")}

\* The compile calls a goroutine makes.
CompileCalls ==
    {Call("Select"), Call("Delete"), Call("Exists"), Call("Truncate"),
     [Call("Count") EXCEPT !.column = "id"],
     [Call("Aggregate") EXCEPT !.fn = "sum", !.column = "amount"],
     [Call("Insert") EXCEPT !.data = [name |-> "John"]],
     [Call("InsertBatch") EXCEPT !.rows = <<[name |-> "A"], [name |-> "B"]>>],
     [Call("Update") EXCEPT !.data = [name |-> "Jane"]],
     [Call("Upsert") EXCEPT !.data = [name |-> "John"], !.updateColumns = <<"name">>]}

NotCalled == [pc |-> "idle", call |-> NoResult, sql |-> "", args |-> 0, ret |-> <<>>,
              err |-> NoError]

CompileInit ==
    /\ heap = CompileHeap
    /\ orig \in CompileFixtures
    /\ clone = <<Deref(heap, orig)>>
    /\ last = [grammar |-> MySQL, n |-> 0]
    /\ res = [g \in Goroutines |-> NotCalled]
    /\ b = Unused /\ calls = Unused /\ tx = Unused /\ val = Unused

\* Goroutine g calls a compile method of the Grammar on the descriptor.
CompileBegin(g) ==
    /\ res[g].pc = "idle"
    /\ last.n < MaxCompileCalls
    /\ \E call \in CompileCalls :
        res' = [res EXCEPT ![g] = [NotCalled EXCEPT !.pc = "compiling", !.call = call]]
    /\ last' = [last EXCEPT !.n = @ + 1]
    /\ UNCHANGED <<heap, orig, clone, b, calls, tx, val>>

\* A compile method that hands back the list of the only predicate it
\* compiled instead of copying it.
ArgsArrayShared(bb, call) ==
    IF UsesWheres(call.op) /\ Len(bb.wheres) = 1 /\ bb.wheres[1].Type \in {"In", "Raw"}
        THEN (IF bb.wheres[1].Type = "In" THEN bb.wheres[1].Values
              ELSE bb.wheres[1].Bindings)
        ELSE 0

\* The array of the argument list a compile method returns on success: 0
\* for the array the method made itself (args := make([]any, 0), filled
\* with append, which never hands back the array of what it appends).
ArgsArray(bb, call) == 0

\* The call of goroutine g returns what the method computes from the
\* descriptor and the Grammar as they are.
CompileEnd(g) ==
    /\ res[g].pc = "compiling"
    /\ \E iter, iter2 \in Orderings(CallKeys(res[g].call)) :
        LET r == Run(Deref(heap, orig), res[g].call, iter, iter2)
            at == IF r.err # NoError THEN 0
                  ELSE IF ArgsArray(orig, res[g].call) = 0 THEN Len(heap) + 1
                  ELSE ArgsArray(orig, res[g].call)
        IN  /\ heap' = IF at = Len(heap) + 1 THEN Append(heap, r.args) ELSE heap
            /\ res' = [res EXCEPT ![g] = [@ EXCEPT !.pc = "returned", !.sql = r.sql,
                                                   !.args = at, !.ret = r.args,
                                                   !.err = r.err]]
    /\ UNCHANGED <<orig, clone, last, b, calls, tx, val>>

\* The caller of a returned call overwrites the first argument of the list
\* it got: args[0] = v.
WriteArgs(g) ==
    /\ res[g].pc = "returned"
    /\ res[g].args # 0
    /\ Len(heap[res[g].args]) > 0
    /\ heap[res[g].args][1] # "written"
    /\ heap' = [heap EXCEPT ![res[g].args][1] = "written"]
    /\ UNCHANGED <<orig, clone, last, res, b, calls, tx, val>>

\* Goroutine g is done with the result and free for its next call.
CompileDone(g) ==
    /\ res[g].pc = "returned"
    /\ last.n < MaxCompileCalls
    /\ res' = [res EXCEPT ![g] = NotCalled]
    /\ UNCHANGED <<heap, orig, clone, last, b, calls, tx, val>>

CompileNext ==
    \E g \in Goroutines :
        CompileBegin(g) \/ CompileEnd(g) \/ WriteArgs(g) \/ CompileDone(g)

CompileSpec == CompileInit /\ [][CompileNext]_vars

(***************************************************************************)
(* C26                                                                     *)
(***************************************************************************)

StarGiven ==
    \/ \E w \in UsedPredicates : w.Type \in ColumnKinds /\ w.Column = "*"
    \/ \E j \in UsedJoins : j.Type # JoinCross /\ "*" \in {j.First, j.Second}
    \/ /\ res.op = "Select"
       /\ \/ \E i \in 1..Len(b.groupBy) : b.groupBy[i] = "*"
          \/ \E o \in ColumnOrders : o.Column = "*"
    \/ res.op \in {"Insert", "Update", "Upsert"} /\ "*" \in DOMAIN res.data
    \/ res.op = "Upsert" /\ \E i \in 1..Len(res.updateColumns) : res.updateColumns[i] = "*"
    \/ res.op = "InsertBatch" /\ Len(res.rows) > 0 /\ "*" \in DOMAIN res.rows[1]
    \/ res.op = "Aggregate" /\ res.column = "*"

\* C27: a compile call that receives "*" as a WHERE/HAVING, GROUP BY,
\* ORDER BY, JOIN or aggregate column or as an INSERT/UPDATE/UPSERT key
\* fails and returns no SQL.
C27_StarOnlyInSelect ==
    Called /\ StarGiven => res.err # NoError /\ res.sql = ""

(***************************************************************************)
(* C28                                                                     *)
(***************************************************************************)

\* The descriptor with its alias written into the table reference, as
\* Table("name as alias") records it.
AliasInTable(bb) == [bb EXCEPT !.table = bb.table \o " as " \o bb.tableAlias, !.tableAlias = ""]

\* C28: for a descriptor with a valid table name and a valid alias, the
\* SELECT compiled is the one compiled from Table("name as alias") with
\* the same other clauses, and on success its FROM clause is
\* `name` AS `alias`.
C28_AliasRendered ==
    (/\ res.op = "Select"
     /\ b.tableAlias # ""
     /\ ValidateTableWithAlias(AliasInTable(b).table).err = NoError)
        => /\ res.sql = CompileSelect(AliasInTable(b)).sql
           /\ res.args = CompileSelect(AliasInTable(b)).args
           /\ res.err = CompileSelect(AliasInTable(b)).err
           /\ Succeeded =>
                Contains(res.sql, " FROM " \o Backtick \o b.table \o Backtick \o " AS "
                                    \o Backtick \o b.tableAlias \o Backtick)

(***************************************************************************)
(* C29                                                                     *)
(***************************************************************************)

\* Some dot of the text stands between an opening backtick and the closing
\* one that follows it.
DotInsideQuotes(text) ==
    \E i \in 1..Len(text) :
        /\ Char(text, i) = "."
        /\ Cardinality({k \in 1..(i - 1) : Char(text, k) = Backtick}) % 2 = 1

\* C29: for a table reference without an alias that validation accepts,
\* WrapTable returns what Wrap returns, with every dot-separated segment
\* quoted by itself.
C29_WrapTableAsWrap ==
    (/\ val.fn = "Wrap"
     /\ ValidateTableWithAlias(val.input).err = NoError
     /\ ValidateTableWithAlias(val.input).alias = "")
        => /\ val.out.table = val.out.column
           /\ val.out.table.err = NoError
           /\ ~DotInsideQuotes(val.out.table.s)

(***************************************************************************)
(* Builder: the execution methods                                          *)
(*                                                                         *)
(* b is the Builder's query state and last tells which of its executor     *)
(* and grammar references are set.  res is the execution call made last:   *)
(* the error it returned, whether it reached the executor, and the query   *)
(* state before it.                                                        *)
(***************************************************************************)

ErrNoExecutor == [kind |-> "ErrNoExecutor", input |-> ""]
NewQueryError(op, table, sql, err) == [kind |-> "QueryError: " \o op, input |-> sql]
NilDereference == [kind |-> "panic: nil pointer dereference", input |-> ""]

ExecInit ==
    /\ b \in Fixtures
    /\ calls = 0
    /\ res = NoResult
    /\ last \in [executor : BOOLEAN, grammar : BOOLEAN]
    /\ heap = Unused /\ orig = Unused /\ clone = Unused /\ tx = Unused /\ val = Unused

\* An execution method returns: err is its error, reached tells whether
\* it called the executor, nb is the query state it leaves.
Executed(op, before, nb, err, reached) ==
    /\ res.op = "none"
    /\ res' = [op |-> op, err |-> err, reached |-> reached, before |-> before]
    /\ b' = nb
    /\ UNCHANGED <<calls, builderVars, tx, val>>

\* ToSelectSQL, ToInsertSQL, ToUpdateSQL, ToDeleteSQL: the Builder's error,
\* the missing grammar, or what the Grammar compiles.
ToSQL(bb, compiled) ==
    IF bb.err # NoError THEN Fail(bb.err)
    ELSE IF ~last.grammar THEN Fail(ErrNoExecutor)
    ELSE compiled

\* The tail of an execution method once its statement is compiled: the
\* compile error, or the call of the executor and what the driver answers.
Execute(op, before, nb, compiled) ==
    IF compiled.err # NoError
        THEN Executed(op, before, nb, compiled.err, FALSE)
        ELSE \E e \in {NoError, DriverFailure} :
                Executed(op, before, nb,
                         IF e = NoError THEN NoError
                         ELSE NewQueryError(op, nb.table, compiled.sql, e),
                         TRUE)

GetContext ==
    IF ~last.executor THEN Executed("Get", b, b, ErrNoExecutor, FALSE)
    ELSE Execute("Get", b, b, ToSQL(b, CompileSelect(b)))

\* FirstContext starts with b.Limit(1).
FirstContext ==
    IF ~last.executor THEN Executed("First", b, BLimit(b, 1), ErrNoExecutor, FALSE)
    ELSE Execute("First", b, BLimit(b, 1), ToSQL(BLimit(b, 1), CompileSelect(BLimit(b, 1))))

InsertContext ==
    \E data \in {[name |-> "John"], (BadId :> "v"), EmptyMap} :
        \E iter \in Orderings(DOMAIN data) :
            IF ~last.executor THEN Executed("Insert", b, b, ErrNoExecutor, FALSE)
            ELSE Execute("Insert", b, b, ToSQL(b, CompileInsert(b, data, iter)))

UpdateContext ==
    \E data \in {[name |-> "Jane"], EmptyMap} :
        \E iter \in Orderings(DOMAIN data) :
            IF ~last.executor THEN Executed("Update", b, b, ErrNoExecutor, FALSE)
            ELSE Execute("Update", b, b, ToSQL(b, CompileUpdate(b, data, iter)))

DeleteContext ==
    IF ~last.executor THEN Executed("Delete", b, b, ErrNoExecutor, FALSE)
    ELSE Execute("Delete", b, b, ToSQL(b, CompileDelete(b)))

\* CountContext and ExistsContext call b.grammar without looking at it.
CountContext ==
    IF ~last.executor THEN Executed("Count", b, b, ErrNoExecutor, FALSE)
    ELSE IF ~last.grammar THEN Executed("Count", b, b, NilDereference, FALSE)
    ELSE Execute("Count", b, b, CompileCount(b, ""))

ExistsContext ==
    IF ~last.executor THEN Executed("Exists", b, b, ErrNoExecutor, FALSE)
    ELSE IF ~last.grammar THEN Executed("Exists", b, b, NilDereference, FALSE)
    ELSE Execute("Exists", b, b, CompileExists(b))

ExecNext ==
    \/ Table \/ Select \/ Where \/ WhereIn \/ JoinOn \/ OrderBy \/ Limit \/ Offset
    \/ GetContext \/ FirstContext \/ InsertContext \/ UpdateContext \/ DeleteContext
    \/ CountContext \/ ExistsContext

ExecSpec == ExecInit /\ [][ExecNext]_vars

(***************************************************************************)
(* C30                                                                     *)
(***************************************************************************)

\* C30: an execution call that returns an error without having called the
\* executor leaves the Builder's query state as it was before the call.
C30_FailedCallKeepsState ==
    (res.op \in {"Get", "First", "Insert", "Update", "Delete", "Count", "Exists"}
        /\ res.err # NoError /\ ~res.reached)
        => b = res.before

============================================================================
